---- MODULE Spec2Model ----
(***************************************************************************)
(* FinSurf: the client-side PDF export pipeline (utils/pdfGenerator.ts,    *)
(* downloadPDF, pdfMode variant) and its caller App.handleDownloadPDF.     *)
(*                                                                         *)
(* Lengths are layout units (CSS px).  A canvas is modelled by its pixel   *)
(* height; the layout height of a chunk is canvas.height / scale.          *)
(* DOM elements are referred to by their position in the result of         *)
(* container.querySelectorAll(...) (document order); 0 is the report       *)
(* container itself, which is used as the fallback chunk.                  *)
(***************************************************************************)
EXTENDS Integers, Sequences, FiniteSets, TLC

VARIABLES
  dom,            \* annotated elements of the live report, in document order
  hasContainer,   \* document.getElementById('report-container') !== null
  pdfMode,        \* the pdfMode argument of the run: "standard" | "hd"
  appPdfMode,     \* App state pdfMode, set by the Footer mode buttons
  pc,             \* position of the export run
  generatingPdf,  \* App state flag
  callerError,    \* handleDownloadPDF's own catch branch ran (setError)
  chunks,         \* the chunk plan
  cap,            \* per chunk: "pending" | "ok" | "failed"
  canvasH,        \* per chunk: pixel height of the captured canvas
  settled,        \* chunk indices in the order their captures settled
  results,        \* what await Promise.all(...) delivered
  totalHeight,
  useSinglePage,
  idx,            \* position of the placement loop in results
  pages,          \* pdf: declared height of every page (<<>> = pdf is null)
  placements,     \* pdf.addImage calls: [chunk, page, y, h]
  currentY,
  prevWasCard,
  saved,          \* pdf.save was called
  alerts,         \* alert(...) calls, in order
  logged,         \* console.error calls made by downloadPDF
  thrown,         \* an exception was raised inside the try block
  active,         \* runs of handleDownloadPDF that have started and not ended
  attempts,       \* per chunk: number of html2canvas calls made for it
  title,          \* per element: data-pdf-title (0: the attribute is absent)
  inGrid,         \* per element: its parent is #agents-grid
  nestedIn,       \* per element: its nearest annotated ancestor (0: none)
  retries,        \* sequential variant: retries left for the current chunk
  throws,         \* sequential variant: per chunk, attempts that threw
  pauses,         \* sequential variant: per chunk, pauses that have elapsed
  scale,          \* sequential variant: the scale argument of the run
  liveDoc,        \* inline style state of the live document
  clones,         \* per chunk: the cloned document after onclone (<<>>: none)
  theme,          \* "light" | "dark"
  convCtx,        \* convCanvas.getContext('2d') !== null in the clone
  target,         \* what the string is: "css" text, "svg" attribute, "none"
  styleInput,     \* a style string of the clone before normalization
  styleText,      \* the same string now
  stylePrev,      \* the string before the latest normalization pass
  passes,         \* normalization passes made over the string
  guardrailCache, \* server: the Map, as its entries in insertion order
  guardNow,       \* server: Date.now()
  guardRuns,      \* server: per checkGuardrail call, where it stands
  loading,        \* hook state: per agent, its loading flag
  responses,      \* hook state: per agent, its response or "null"
  agentRuns,      \* per runAll call and agent: the run the call made
  errors,         \* per runAll call: its local errors array
  shownError,     \* per runAll call: what it passed to onError ("none")
  runAllPc,       \* per runAll call: "awaiting" | "resolved"
  formInput,      \* per runAll call: its arguments
  searches,       \* runAll calls made so far
  directRuns,     \* runs called on their own, in the order of the calls
  disturbed       \* history, per runAll call: another run was in flight
                  \* or another call was made while it was awaiting

vars == <<dom, hasContainer, pdfMode, appPdfMode, scale, pc, generatingPdf, callerError, chunks,
          cap, canvasH, settled, results, totalHeight, useSinglePage, idx,
          pages, placements, currentY, prevWasCard, saved, alerts, logged,
          thrown, active, attempts, title, liveDoc, clones, theme, convCtx,
          target, styleInput, styleText, stylePrev, passes, inGrid, nestedIn, retries,
          throws, pauses, guardrailCache, guardNow, guardRuns, loading,
          responses, agentRuns, errors, shownError, runAllPc, formInput,
          searches, directRuns, disturbed>>

(***************************************************************************)
(* Bounds of the model.                                                    *)
(***************************************************************************)
MaxPlanNodes == 4     \* elements in the DOM of the planner specification
MaxNodes     == 3     \* elements in the DOM of the pipeline specification
MaxPageNodes == 3     \* elements in the DOM of the page-assembly specification
MaxStyleLen  == 4     \* tokens of a free-form style string
MaxNest      == 3     \* parentheses opened (closed) around a wrapped string
MaxInnerLen  == 3     \* tokens of the string inside the wrapping
MaxPasses    == 2     \* normalization passes over one string
MaxCloneNodes == 3    \* elements in the DOM of the clone-sanitizer specification
MaxSeqNodes  == 3     \* elements in the DOM of the sequential-variant specification
MaxGuardCalls == 2    \* checkGuardrail calls in the guardrail specification
MaxGuardHours == 1    \* hours the server clock may advance in that specification
MaxLiveNodes == 2     \* elements in the DOM of the fairness specification
MaxCalls     == 2     \* calls of the hook's functions in the agents specification

(***************************************************************************)
(* Program constants.                                                      *)
(***************************************************************************)
ROW_BUDGET            == 1400
DEFAULT_CARD_WIDTH    == 350
STANDARD_A4_HEIGHT    == 1980
Scale                 == 2

\* canvas.height / scale is a floating-point quotient: with scale 1 or 2 it
\* is a whole number of half pixels.  Every computed height (chunkH,
\* totalHeight, currentY, the page heights and the placements) is held as a
\* number of half pixels; the literals of the code stay in pixels and are
\* converted by Px where they meet a computed height.
HalfPerPx == 2
Px(n)     == n * HalfPerPx

CardGap(mode)            == IF mode = "hd" THEN 0 ELSE 20
CHUNK_GAP(mode)          == IF mode = "hd" THEN 10 ELSE 30
SINGLE_PAGE_THRESHOLD(mode) == IF mode = "hd" THEN 8000 ELSE 4000

Modes == {"standard", "hd"}

(***************************************************************************)
(* The DOM.  role is the data-pdf-chunk attribute ("none": the element is  *)
(* matched only through data-pdf-break="before"), populated is the         *)
(* presence of a .markdown-body descendant, brk is data-pdf-break="before",*)
(* width is getBoundingClientRect().width.                                 *)
(***************************************************************************)
Node(r, p, b, w) == [role |-> r, populated |-> p, brk |-> b, width |-> w]

ContainerEl == Node("none", TRUE, FALSE, 1400)

El(d, e) == IF e = 0 THEN ContainerEl ELSE d[e]

IsCardEl(d, e) == El(d, e).role = "card"

SeqsUpTo(S, n) == UNION {[1..k -> S] : k \in 0..n}

(***************************************************************************)
(* Chunk Planner: lines 19-54.                                             *)
(***************************************************************************)
RawChunks(d) == IF Len(d) = 0 THEN <<0>> ELSE [i \in 1..Len(d) |-> i]

Single(e)  == [isGroup |-> FALSE, els |-> <<e>>]
Group(row) == [isGroup |-> TRUE,  els |-> row]

MeasuredWidth(d, e) ==
  IF El(d, e).width = 0 THEN DEFAULT_CARD_WIDTH ELSE El(d, e).width

PackInit == [chunks |-> <<>>, row |-> <<>>, w |-> 0]

\* a planner that forgets the gap when it tests and accumulates the row width
PackCard_NoGap(st, d, e, mode) ==
  LET width == MeasuredWidth(d, e)
  IN  IF st.w + width <= ROW_BUDGET
      THEN [st EXCEPT !.row = Append(@, e), !.w = @ + width]
      ELSE [chunks |-> IF Len(st.row) > 0
                       THEN Append(st.chunks, Group(st.row)) ELSE st.chunks,
            row |-> <<e>>, w |-> width]

\* lines 33-44: one card element
PackCard(st, d, e, mode) ==
  LET width == MeasuredWidth(d, e)
      gap   == CardGap(mode)
  IN  IF st.w + width + gap <= ROW_BUDGET
      THEN [st EXCEPT !.row = Append(@, e), !.w = @ + width + gap]
      ELSE [chunks |-> IF Len(st.row) > 0
                       THEN Append(st.chunks, Group(st.row)) ELSE st.chunks,
            row |-> <<e>>, w |-> width]

\* a planner that leaves the pending row open at a non-card element
PackOther_NoFlush(st, e) ==
  [chunks |-> Append(st.chunks, Single(e)), row |-> st.row, w |-> st.w]

\* lines 45-52: one non-card element
PackOther(st, e) ==
  [chunks |-> Append(IF Len(st.row) > 0
                     THEN Append(st.chunks, Group(st.row)) ELSE st.chunks,
                     Single(e)),
   row |-> <<>>, w |-> 0]

\* a planner that lets unpopulated cards through
IsPopulated_All(d, e) == TRUE

\* line 28
IsPopulated(d, e) == IF IsCardEl(d, e) THEN El(d, e).populated ELSE TRUE

\* lines 26-53: one iteration of the loop
PackStep(st, d, e, mode) ==
  IF ~IsPopulated(d, e) THEN st
  ELSE IF IsCardEl(d, e) THEN PackCard(st, d, e, mode)
  ELSE PackOther(st, e)

RECURSIVE PackLoop(_, _, _, _)
PackLoop(st, raw, d, mode) ==
  IF Len(raw) = 0 THEN st
  ELSE PackLoop(PackStep(st, d, Head(raw), mode), Tail(raw), d, mode)

\* lines 22-54: the plan for the elements raw
PackRows(raw, d, mode) ==
  LET st == PackLoop(PackInit, raw, d, mode)
  IN  IF Len(st.row) > 0 THEN Append(st.chunks, Group(st.row)) ELSE st.chunks

PlanChunks(d, mode) == PackRows(RawChunks(d), d, mode)

(***************************************************************************)
(* Rasterizer Adapter: lines 57-221.  Every capture is started by          *)
(* chunks.map(async ...) and settles on its own; Promise.all delivers the  *)
(* canvases in the order of the plan.                                      *)
(***************************************************************************)
FirstEl(item) == item.els[1]

\* results assembled in the order the captures finished
Results_CompletionOrder(ch, hs, order) ==
  [i \in 1..Len(ch) |-> [canvas |-> hs[order[i]], item |-> ch[order[i]]]]

\* lines 57, 220: the array Promise.all resolves with
Results(ch, hs, order) ==
  [i \in 1..Len(ch) |-> [canvas |-> hs[i], item |-> ch[i]]]

\* a throw that escapes downloadPDF and rejects its promise
ThrowTarget_Uncaught == "rejected"

\* lines 12, 296: a throw inside the try block is taken by the catch clause
ThrowTarget == "caught"

(***************************************************************************)
(* Page Assembler: lines 223-295.                                          *)
(***************************************************************************)
Max(a, b) == IF a >= b THEN a ELSE b

\* lines 231, 251: canvas.height / scale, in half pixels
ChunkH(r) == (r.canvas * HalfPerPx) \div Scale

\* the chunk gap is used for every adjacency
EffectiveGap_AlwaysChunkGap(isCard, prevIsCard, mode) == CHUNK_GAP(mode)

\* the card gap between any two chunks
EffectiveGap_AlwaysCardGap(isCard, prevIsCard, mode) == CardGap(mode)

\* lines 237, 271, 282
EffectiveGap(isCard, prevIsCard, mode) ==
  IF isCard /\ prevIsCard THEN CardGap(mode) ELSE CHUNK_GAP(mode)

\* lines 229-239: totalHeight after the entries index..Len(res) were added
RECURSIVE TotalLoop(_, _, _, _, _)
TotalLoop(res, index, acc, d, mode) ==
  IF index > Len(res) THEN acc
  ELSE LET chunkH     == ChunkH(res[index])
           isCard     == IsCardEl(d, FirstEl(res[index].item))
           prevIsCard == index > 1 /\ IsCardEl(d, FirstEl(res[index - 1].item))
           gap        == EffectiveGap(isCard, prevIsCard, mode)
       IN  TotalLoop(res, index + 1,
                     acc + chunkH + (IF index = 1 THEN 0 ELSE Px(gap)), d,
                     mode)

TotalHeight(res, d, mode) == TotalLoop(res, 1, 0, d, mode)

\* an exclusive threshold
UseSinglePage_Exclusive(total, mode) ==
  total < Px(SINGLE_PAGE_THRESHOLD(mode))

\* line 241
UseSinglePage(total, mode) == total <= Px(SINGLE_PAGE_THRESHOLD(mode))

\* every page gets the reference height
NewPageHeight_Fixed(chunkH) == Px(STANDARD_A4_HEIGHT)

\* lines 260, 275
NewPageHeight(chunkH) == Max(Px(STANDARD_A4_HEIGHT), chunkH)

\* the break-before marker is not looked at
NeedsNewPage_OverflowOnly(hasBreakBefore, y, chunkH, gap, pageH) ==
  y + chunkH + Px(gap) > pageH

\* the remaining space is not looked at
NeedsNewPage_BreakOnly(hasBreakBefore, y, chunkH, gap, pageH) ==
  hasBreakBefore

\* line 272
NeedsNewPage(hasBreakBefore, y, chunkH, gap, pageH) ==
  hasBreakBefore \/ (y + chunkH + Px(gap) > pageH)

\* the gap is left out of the offset
NextY_NoGap(fresh, y, gap) == IF fresh THEN 0 ELSE y

\* lines 262, 276-278, 282: the offset of a chunk on a fresh page is 0,
\* otherwise the cursor advanced by the gap
NextY(fresh, y, gap) == IF fresh THEN 0 ELSE y + Px(gap)

\* a file is written whatever was placed
HasPdf_Always(pgs) == TRUE

\* line 291: if (pdf)
HasPdf(pgs) == Len(pgs) > 0

(***************************************************************************)
(* DOM Clone Sanitizer: the onclone callback, lines 74-217.  A document is *)
(* modelled by the inline display of every annotated element and by one    *)
(* flag for the document-wide rewrites (theme class, injected style tags,  *)
(* forced widths, frozen animations, replaced colors).  The cards are the  *)
(* children of #agents-grid (ResultsGrid).                                 *)
(***************************************************************************)
PristineDoc(d) == [display |-> [e \in 1..Len(d) |-> ""], sanitized |-> FALSE]

NoClone == <<>>

\* lines 67, 74: html2canvas hands onclone a copy of the live document
CloneDocument(live) == live

\* the callback closes over a variable shared by all captures
CapturedGroup_Last(ch, i) == ch[Len(ch)]

\* lines 57-60: the chunk the callback of capture i closes over
CapturedGroup(ch, i) == ch[i]

\* line 105
VisibleTitles(t, item) ==
  {(IF item.els[k] = 0 THEN 0 ELSE t[item.els[k]]) : k \in DOMAIN item.els}

\* lines 103-117: display of the grid children in the clone
SanitizeGrid(doc, d, t, g, item) ==
  IF IsCardEl(d, FirstEl(item)) /\ \E c \in 1..Len(d) : g[c]
  THEN [e \in 1..Len(d) |->
          IF g[e]
          THEN IF t[e] \in VisibleTitles(t, item) THEN "flex" ELSE "none"
          ELSE doc.display[e]]
  ELSE doc.display

\* lines 63-65: the grid is captured for a card whose parent is the grid,
\* the first element of the chunk otherwise
CaptureTargetIsGrid(d, g, item) ==
  IsCardEl(d, FirstEl(item)) /\ g[FirstEl(item)]

\* The annotated elements of the report are numbered in document order, as
\* querySelectorAll returns them (line 19).  Element e lies inside another
\* annotated element or not: nestedIn[e] is the nearest such ancestor, 0
\* when there is none.  inGrid[e] says that e.parentElement is #agents-grid.
\* An element with nestedIn[e] = 0 and ~inGrid[e] lies outside the grid.
RECURSIVE Ancestors(_, _)
Ancestors(n, e) ==
  IF e = 0 \/ n[e] = 0 THEN {} ELSE {n[e]} \cup Ancestors(n, n[e])

\* the annotated elements in the subtree of element e (0: #report-container)
Subtree(n, e) ==
  IF e = 0 THEN DOMAIN n
  ELSE {x \in DOMAIN n : x = e \/ e \in Ancestors(n, x)}

\* the children of #agents-grid and the elements inside them
GridDescendants(g, n) ==
  {x \in DOMAIN n : g[x] \/ \E a \in Ancestors(n, x) : g[a]}

\* the annotated elements in the subtree of #agents-grid: a subtree is an
\* interval of the document order, so it holds whatever lies between two
\* of its elements
GridSubtree(g, n) ==
  {x \in DOMAIN n :
     \E a, c \in GridDescendants(g, n) : a <= x /\ x <= c}

GridContiguous(g) ==
  \A a, b, c \in DOMAIN g : (a < b /\ b < c /\ g[a] /\ g[c]) => g[b]

\* g and n describe a tree in document order: an ancestor comes before its
\* descendants and they follow it without a gap; the children of the grid
\* are not inside an annotated element (ResultsGrid); the grid has no
\* children without annotation, so that its subtree is its annotated
\* children and what is inside them
TreeShape(g, n) ==
  /\ \A e \in DOMAIN n : n[e] \in 0..(e - 1)
  /\ \A e \in DOMAIN n :
       n[e] # 0 => \A b \in (n[e] + 1)..(e - 1) : n[e] \in Ancestors(n, b)
  /\ \A e \in DOMAIN n : g[e] => n[e] = 0
  /\ GridContiguous([x \in DOMAIN n |-> x \in GridDescendants(g, n)])

\* ResultsGrid: the grid holds the first unbroken run of cards of the report
GridChildren(d) ==
  [e \in 1..Len(d) |->
     /\ d[e].role = "card"
     /\ \A k \in 1..e :
          (\E c \in 1..k : d[c].role = "card") => d[k].role = "card"]

\* display: none on an element removes it and its subtree from the drawing
Displayed(n, display, e) ==
  \A a \in {e} \cup Ancestors(n, e) : display[a] # "none"

\* lines 63-67: the annotated elements html2canvas draws from the clone of
\* a capture: those in the subtree of the capture target (the grid, or the
\* first element of the chunk) that are displayed
Rendered(d, g, n, item, display) ==
  {e \in (IF CaptureTargetIsGrid(d, g, item)
          THEN GridSubtree(g, n)
          ELSE Subtree(n, FirstEl(item))) : Displayed(n, display, e)}

\* lines 181-187: a pdf-header chunk is laid out as a flex box in every clone
FixChunkElements(display, d) ==
  [e \in 1..Len(d) |-> IF d[e].role = "header" THEN "flex" ELSE display[e]]

\* the onclone callback of one capture (lines 74-217), as far as it sets the
\* display of the annotated elements
OnCloneDoc(doc, d, t, g, item) ==
  [display   |-> FixChunkElements(SanitizeGrid(doc, d, t, g, item), d),
   sanitized |-> TRUE]

\* the callback works on the live document
LiveAfterOnclone_InPlace(live, sanitizedClone) == sanitizedClone

\* lines 74-217: the callback reaches documents only through clonedDoc
LiveAfterOnclone(live, sanitizedClone) == live

\* the Download button is never disabled
ButtonDisabled_Never(generating) == FALSE

\* Footer.tsx 73: disabled={isGeneratingPdf}
ButtonDisabled(generating) == generating

\* the container is not checked
AfterContainerCheck_NoCheck(has) == "loading"

\* lines 9-13: without the report container downloadPDF returns at once
AfterContainerCheck(has) == IF has THEN "loading" ELSE "returned"

\* the assembly starts as soon as one capture has delivered
AllDelivered_Any(c) == \E i \in DOMAIN c : c[i] = "ok"

\* line 57: await Promise.all resolves when every capture has resolved
AllDelivered(c) == \A i \in DOMAIN c : c[i] = "ok"

\* line 67: html2canvas is called once for every chunk
LaunchAttempts(ch) == [i \in 1..Len(ch) |-> 1]

(***************************************************************************)
(* The Color Normalizer (lines 132-216).  A string is a sequence of        *)
(* tokens: a color function name, "(", ")", " " (white space), or any      *)
(* other token, which stands for text without parentheses, white space or  *)
(* a function name.                                                        *)
(***************************************************************************)
ModernNames == {"oklch", "oklab", "color-mix"}

\* s.includes('oklch') || s.includes('oklab') || s.includes('color-mix')
HasModernColor_Always(s) == TRUE
HasModernColor(s) == \E k \in DOMAIN s : s[k] \in ModernNames

\* theme === 'dark' ? '#cbd5e1' : '#334155'
Fallback(th) == IF th = "dark" THEN <<"#cbd5e1">> ELSE <<"#334155">>

\* what reading convCtx.fillStyle back yields after assigning the color
CanvasOutcomes == {"hex", "rgba", "transparent", "modern", "throws"}
Transparent == <<"rgba", "(", "0", ")">>
CanvasFillStyle(outcome, color) ==
  CASE outcome = "hex"         -> <<"#rrggbb">>
    [] outcome = "rgba"        -> <<"rgba", "(", "r,g,b,a", ")">>
    [] outcome = "transparent" -> Transparent
    [] OTHER                   -> color

\* lines 138-157
ConvertColor(color, th, ctx, outcome) ==
  IF color = <<>> \/ ~HasModernColor(color) THEN color
  ELSE IF ~ctx THEN Fallback(th)
  ELSE IF outcome = "throws" THEN Fallback(th)
  ELSE LET result == CanvasFillStyle(outcome, color)
       IN  IF result = Transparent \/ HasModernColor(result)
           THEN Fallback(th)
           ELSE result

\* \s*
RECURSIVE SkipSpace(_, _)
SkipSpace(s, k) ==
  IF k <= Len(s) /\ s[k] = " " THEN SkipSpace(s, k + 1) ELSE k

\* (?:[^)(]+|\((?:[^)(]+|\([^)(]*\))*\))*\) from position k, with depth
\* parentheses open inside the argument list: the position of the closing
\* parenthesis of the call, 0 when there is no match
RECURSIVE ScanArgs(_, _, _)
ScanArgs(s, k, depth) ==
  IF k > Len(s) THEN 0
  ELSE IF s[k] = "(" THEN (IF depth = 2 THEN 0 ELSE ScanArgs(s, k + 1, depth + 1))
  ELSE IF s[k] = ")" THEN (IF depth = 0 THEN k ELSE ScanArgs(s, k + 1, depth - 1))
  ELSE ScanArgs(s, k + 1, depth)

\* modernColorRegex (line 136) tried at position p: the last position of the
\* match, 0 when the expression does not match there
MatchEnd_NoNesting(s, p) ==
  IF s[p] \notin ModernNames THEN 0
  ELSE LET q == SkipSpace(s, p + 1)
           r == IF q <= Len(s) /\ s[q] = "(" THEN ScanArgs(s, q + 1, 0) ELSE 0
       IN  IF r # 0 /\ \A k \in (q + 1)..(r - 1) : s[k] # "(" THEN r ELSE 0
MatchEnd(s, p) ==
  IF s[p] \notin ModernNames THEN 0
  ELSE LET q == SkipSpace(s, p + 1)
       IN  IF q <= Len(s) /\ s[q] = "(" THEN ScanArgs(s, q + 1, 0) ELSE 0

\* number of matches a global replace finds from position p on
RECURSIVE CountMatches(_, _)
CountMatches(s, p) ==
  IF p > Len(s) THEN 0
  ELSE LET r == MatchEnd(s, p)
       IN  IF r = 0 THEN CountMatches(s, p + 1) ELSE 1 + CountMatches(s, r + 1)

\* s.replace(modernColorRegex, m => convertColor(m)) from position p on; the
\* n-th match is resolved by the canvas with outcome outs[n]
RECURSIVE ReplaceFrom(_, _, _, _, _, _)
ReplaceFrom(s, p, n, th, ctx, outs) ==
  IF p > Len(s) THEN <<>>
  ELSE LET r == MatchEnd(s, p)
       IN  IF r = 0
           THEN <<s[p]>> \o ReplaceFrom(s, p + 1, n, th, ctx, outs)
           ELSE ConvertColor(SubSeq(s, p, r), th, ctx, outs[n])
                  \o ReplaceFrom(s, r + 1, n + 1, th, ctx, outs)

\* lines 160-164, 190-192, 210-212: style tag body, inline style, rule text
NormalizeCss(s, th, ctx, outs) ==
  IF HasModernColor(s) THEN ReplaceFrom(s, 1, 1, th, ctx, outs) ELSE s

\* lines 195-200: fill and stroke attributes
NormalizeAttr(val, th, ctx, outcome) ==
  IF val # <<>> /\ HasModernColor(val)
  THEN ConvertColor(val, th, ctx, outcome)
  ELSE val

(***************************************************************************)
(* The export run as a state machine.  pc:                                 *)
(*   idle        nothing running                                           *)
(*   loading     awaiting the dynamic imports (line 13)                    *)
(*   capturing   awaiting Promise.all of the captures (line 57)            *)
(*   assembling  inside the synchronous assembly (lines 223-295)           *)
(*   caught      the catch clause is about to run (line 296)               *)
(*   returned    downloadPDF's promise is resolved                         *)
(*   rejected    downloadPDF's promise is rejected                         *)
(*   done        handleDownloadPDF has finished                            *)
(***************************************************************************)
assemblyVars == <<results, totalHeight, useSinglePage, idx, pages, placements,
                  currentY, prevWasCard>>
captureVars  == <<chunks, cap, canvasH, settled, attempts, clones>>
outputVars   == <<saved, alerts, logged>>
inputVars    == <<dom, hasContainer, pdfMode, appPdfMode, title, inGrid,
                  nestedIn>>
colorVars    == <<theme, convCtx, target, styleInput, styleText, stylePrev,
                  passes>>
seqVars      == <<retries, throws, pauses, scale>>
guardVars    == <<guardrailCache, guardNow, guardRuns>>
agentVars    == <<loading, responses, agentRuns, errors, shownError, runAllPc,
                  formInput, searches, directRuns, disturbed>>
serviceVars  == <<guardVars, agentVars>>

PipeCardWidths     == {680}
PlanCardWidths     == {0, 350, 690, 1400, 1500}
PipeCanvasHeights  == {1800, 8001}
PageCanvasHeights  == {1800, 3970, 3990, 7990, 8001, 16200}

\* page breaks are varied in the page-assembly specification (PageNodeTypes)
PipeNodeTypes ==
  {Node("header", FALSE, FALSE, 0)}
    \cup {Node("card", p, FALSE, w) : p \in BOOLEAN, w \in PipeCardWidths}

PlanNodeTypes ==
  {Node("header", FALSE, FALSE, 0)}
    \cup {Node("card", p, FALSE, w) : p \in BOOLEAN, w \in PlanCardWidths}

PageNodeTypes ==
  {Node("header", FALSE, b, 0) : b \in BOOLEAN}
    \cup {Node("card", TRUE, b, w) : b \in BOOLEAN, w \in PipeCardWidths}
    \cup {Node("card", FALSE, FALSE, w) : w \in PipeCardWidths}

Identity(n) == [i \in 1..n |-> i]

(***************************************************************************)
(* The server's guardrail cache (server.ts).  Strings are sequences of     *)
(* one-character strings, so that toUpperCase() and trim() are computed.   *)
(***************************************************************************)
MAX_CACHE_SIZE == 500
CACHE_TTL      == 1000 * 60 * 60

\* A character is a one-character string; a character outside ASCII is
\* written as the name of its code point ("U+00A0").  Tickers and agent
\* outputs are strings over ASCII and the white space of ECMAScript.
LowerLetters ==
  <<"a", "b", "c", "d", "e", "f", "g", "h", "i", "j", "k", "l", "m", "n",
    "o", "p", "q", "r", "s", "t", "u", "v", "w", "x", "y", "z">>
UpperLetters ==
  <<"A", "B", "C", "D", "E", "F", "G", "H", "I", "J", "K", "L", "M", "N",
    "O", "P", "Q", "R", "S", "T", "U", "V", "W", "X", "Y", "Z">>

\* the upper-case letter of every lower-case ASCII letter
UpperOf ==
  [c \in {LowerLetters[i] : i \in DOMAIN LowerLetters} |->
     UpperLetters[CHOOSE i \in DOMAIN LowerLetters : LowerLetters[i] = c]]

\* WhiteSpace and LineTerminator of ECMAScript, which trim() removes:
\* TAB, LF, VT, FF, CR, SP, NBSP, the Unicode space separators, LS, PS and
\* the byte order mark
WhiteSpaceChars ==
  {"\t", "\n", "U+000B", "\f", "\r", " ", "U+00A0", "U+1680", "U+2000",
   "U+2001", "U+2002", "U+2003", "U+2004", "U+2005", "U+2006", "U+2007",
   "U+2008", "U+2009", "U+200A", "U+2028", "U+2029", "U+202F", "U+205F",
   "U+3000", "U+FEFF"}

\* String.prototype.toUpperCase, character by character
ToUpperCase(s) ==
  [i \in 1..Len(s) |-> IF s[i] \in DOMAIN UpperOf THEN UpperOf[s[i]] ELSE s[i]]

IsSpace(c) == c \in WhiteSpaceChars

RECURSIVE TrimStart(_)
TrimStart(s) ==
  IF s # <<>> /\ IsSpace(Head(s)) THEN TrimStart(Tail(s)) ELSE s

RECURSIVE TrimEnd(_)
TrimEnd(s) ==
  IF s # <<>> /\ IsSpace(s[Len(s)])
  THEN TrimEnd(SubSeq(s, 1, Len(s) - 1))
  ELSE s

\* String.prototype.trim
Trim(s) == TrimEnd(TrimStart(s))

\* line 116: const key = ticker.toUpperCase().trim()
CacheKey(ticker) == Trim(ToUpperCase(ticker))

\* line 125: const status = result.trim() === "SAFE"
SafeVerdict(result) == Trim(result) = <<"S", "A", "F", "E">>

\* Map.prototype.get: the position of the entry of key k, 0 if there is none
CacheIndex(c, k) ==
  IF \E i \in 1..Len(c) : c[i].key = k
  THEN CHOOSE i \in 1..Len(c) : c[i].key = k
  ELSE 0

\* line 118: cached && Date.now() - cached.timestamp < CACHE_TTL
FreshHit(c, k, now) ==
  /\ CacheIndex(c, k) # 0
  /\ now - c[CacheIndex(c, k)].timestamp < CACHE_TTL

\* the store never evicts
Evict_Never(c) == c

\* lines 126-129: once the Map holds MAX_CACHE_SIZE entries its first key,
\* the oldest insertion, is deleted
Evict(c) == IF Len(c) >= MAX_CACHE_SIZE THEN Tail(c) ELSE c

\* Map.prototype.set: an existing key keeps its place, a new one goes last
CacheSet(c, k, v) ==
  IF CacheIndex(c, k) # 0
  THEN [c EXCEPT ![CacheIndex(c, k)] = v]
  ELSE Append(c, v)

\* lines 126-130 together
CacheAfterStore(c, k, status, now) ==
  CacheSet(Evict(c), k, [key |-> k, status |-> status, timestamp |-> now])

IdleRun ==
  [st |-> "idle", ticker |-> <<>>, outcome |-> "none", value |-> FALSE]

\* the server has just started
NoGuard ==
  /\ guardrailCache = <<>> /\ guardNow = 0
  /\ guardRuns = [r \in 1..MaxGuardCalls |-> IdleRun]

(***************************************************************************)
(* The agents hook (useFinancialAgents.ts).                                *)
(***************************************************************************)
Agents == {"research", "tax", "dividend", "sentiment"}

\* lines 22, 36, 50, 65: the early return of each run on a missing input
Startable(a, inp) ==
  CASE a = "research"  -> inp.ticker # ""
    [] a = "tax"       -> inp.ticker # "" /\ inp.purchaseDate # ""
                            /\ inp.sellDate # ""
    [] a = "dividend"  -> inp.ticker # "" /\ inp.shares # ""
    [] a = "sentiment" -> inp.ticker # ""

\* lines 29, 43, 58, 72: the message each run hands to onError
FailureMessage(a) ==
  CASE a = "research"  -> "Research failed. Please check the ticker or try again."
    [] a = "tax"       -> "Tax analysis failed."
    [] a = "dividend"  -> "Dividend analysis failed."
    [] a = "sentiment" -> "Sentiment analysis failed."

\* lines 99-106: what runAll reports once every run has settled
ReportOf(errs) ==
  IF Len(errs) = 0 THEN "none"
  ELSE IF Len(errs) > 2
       THEN "Multiple analysis agents encountered issues. Some results may be incomplete."
       ELSE errs[1]

\* runAll goes on as soon as one run has settled
AllSettled_Any(runs) == \E a \in Agents : runs[a].st # "pending"

\* line 92: Promise.allSettled resolves when no run is pending any more
AllSettled(runs) == \A a \in Agents : runs[a].st # "pending"

\* lines 92-97: the runs a runAll call makes; a run whose inputs are missing
\* has returned, the others are suspended at their requests
RunsOf(inp) ==
  [a \in Agents |->
     [st |-> IF Startable(a, inp) THEN "pending" ELSE "skipped",
      res |-> "null"]]

\* some request is in flight, whoever started it
AnyPending(runs, direct) ==
  \/ \E c \in DOMAIN runs : \E a \in Agents : runs[c][a].st = "pending"
  \/ \E k \in DOMAIN direct : direct[k].st = "pending"

\* every runAll call that is awaiting its runs is marked
Disturb(dist, pcs) ==
  [c \in DOMAIN dist |-> dist[c] \/ pcs[c] = "awaiting"]

\* lines 7-19: the hook's initial state; no call has been made
NoAgents ==
  /\ loading = [a \in Agents |-> FALSE]
  /\ responses = [a \in Agents |-> "null"]
  /\ agentRuns = <<>> /\ errors = <<>> /\ shownError = <<>>
  /\ runAllPc = <<>> /\ formInput = <<>> /\ searches = 0
  /\ directRuns = <<>> /\ disturbed = <<>>

InitRun ==
  /\ appPdfMode = pdfMode
  /\ callerError = FALSE
  /\ results = <<>> /\ totalHeight = 0 /\ useSinglePage = FALSE /\ idx = 0
  /\ pages = <<>> /\ placements = <<>> /\ currentY = 0 /\ prevWasCard = FALSE
  /\ saved = FALSE /\ alerts = <<>> /\ logged = 0 /\ thrown = FALSE
  /\ title = [e \in 1..Len(dom) |-> IF dom[e].role = "card" THEN e ELSE 0]
  /\ inGrid = GridChildren(dom)
  /\ nestedIn = [e \in 1..Len(dom) |-> 0]
  /\ liveDoc = PristineDoc(dom)

\* no style string is being normalized
NoStyle ==
  /\ theme = "light" /\ convCtx = TRUE /\ target = "none"
  /\ styleInput = <<>> /\ styleText = <<>> /\ stylePrev = <<>> /\ passes = 0

\* the sequential variant is not running
NoSeq == retries = 0 /\ throws = <<>> /\ pauses = <<>> /\ scale = Scale

\* the page before the Download button is pressed
Init ==
  /\ pdfMode \in Modes
  /\ hasContainer \in BOOLEAN
  /\ dom \in (IF hasContainer THEN SeqsUpTo(PipeNodeTypes, MaxNodes) ELSE {<<>>})
  /\ pc = "idle" /\ generatingPdf = FALSE /\ active = 0
  /\ chunks = <<>> /\ cap = <<>> /\ canvasH = <<>> /\ settled = <<>>
  /\ attempts = <<>> /\ clones = <<>>
  /\ InitRun
  /\ NoStyle
  /\ NoSeq
  /\ NoGuard
  /\ NoAgents

\* Footer.tsx 72-73 and App.tsx 44-48 with downloadPDF lines 8-13: a press
\* of the enabled Download button starts a run, up to its first await.
\* The run variables describe the run started last.
Click ==
  /\ ~ButtonDisabled(generatingPdf)
  /\ generatingPdf' = TRUE
  /\ active' = active + 1
  /\ pc' = AfterContainerCheck(hasContainer)
  /\ chunks' = <<>> /\ cap' = <<>> /\ canvasH' = <<>> /\ settled' = <<>>
  /\ attempts' = <<>> /\ clones' = <<>>
  /\ results' = <<>> /\ totalHeight' = 0 /\ useSinglePage' = FALSE /\ idx' = 0
  /\ pages' = <<>> /\ placements' = <<>> /\ currentY' = 0 /\ prevWasCard' = FALSE
  /\ saved' = FALSE /\ alerts' = <<>> /\ logged' = 0 /\ thrown' = FALSE
  /\ pdfMode' = appPdfMode
  /\ UNCHANGED <<serviceVars, dom, hasContainer, appPdfMode, title, inGrid, nestedIn,
                 seqVars, colorVars, liveDoc, callerError>>

\* Footer.tsx 46, 58 with App.tsx 33: a mode button sets the App state; the
\* buttons stay enabled during a run, whose pdfMode argument is not changed
SetPdfMode(m) ==
  /\ m # appPdfMode
  /\ appPdfMode' = m
  /\ UNCHANGED <<serviceVars, dom, hasContainer, pdfMode, title, inGrid, nestedIn,
                 seqVars, colorVars, liveDoc, pc, generatingPdf, callerError,
                 active, thrown, captureVars, assemblyVars, outputVars>>

\* lines 13-57: the imports arrived; plan the chunks and start every capture
ImportsResolved ==
  /\ pc = "loading"
  /\ chunks' = PlanChunks(dom, pdfMode)
  /\ cap' = [i \in 1..Len(chunks') |-> "pending"]
  /\ canvasH' = [i \in 1..Len(chunks') |-> 0]
  /\ settled' = <<>>
  /\ attempts' = LaunchAttempts(chunks')
  /\ clones' = [i \in 1..Len(chunks') |-> NoClone]
  /\ pc' = "capturing"
  /\ UNCHANGED <<serviceVars, inputVars, seqVars, colorVars, liveDoc, active, generatingPdf, callerError, assemblyVars, outputVars, thrown>>

\* line 13: a dynamic import fails
ImportsRejected ==
  /\ pc = "loading"
  /\ pc' = ThrowTarget
  /\ thrown' = TRUE
  /\ UNCHANGED <<serviceVars, inputVars, seqVars, colorVars, liveDoc, active, generatingPdf, callerError, captureVars, assemblyVars, outputVars>>

\* lines 19-54: a DOM call of the planner throws
PlanThrows ==
  /\ pc = "loading"
  /\ pc' = ThrowTarget
  /\ thrown' = TRUE
  /\ UNCHANGED <<serviceVars, inputVars, seqVars, colorVars, liveDoc, active, generatingPdf, callerError, captureVars, assemblyVars, outputVars>>

\* lines 67-217: html2canvas of chunk i has cloned the document and calls
\* onclone
OnClone(i) ==
  /\ pc \notin {"idle", "loading"}
  /\ i \in DOMAIN cap /\ cap[i] = "pending" /\ clones[i] = NoClone
  /\ LET sanitizedClone == OnCloneDoc(CloneDocument(liveDoc), dom, title, inGrid,
                                      CapturedGroup(chunks, i))
     IN  /\ clones' = [clones EXCEPT ![i] = sanitizedClone]
         /\ liveDoc' = LiveAfterOnclone(liveDoc, sanitizedClone)
  /\ UNCHANGED <<serviceVars, inputVars, seqVars, colorVars, active, pc, generatingPdf, callerError, chunks, cap,
                 canvasH, settled, attempts, assemblyVars, outputVars, thrown>>

\* line 67: html2canvas of chunk i renders its clone and delivers a canvas
CaptureResolves(i, h) ==
  /\ pc \notin {"idle", "loading"}
  /\ i \in DOMAIN cap /\ cap[i] = "pending" /\ clones[i] # NoClone
  /\ cap' = [cap EXCEPT ![i] = "ok"]
  /\ canvasH' = [canvasH EXCEPT ![i] = h]
  /\ settled' = Append(settled, i)
  /\ UNCHANGED <<serviceVars, inputVars, seqVars, colorVars, liveDoc, active, pc, generatingPdf, callerError, chunks, attempts, clones,
                 assemblyVars, outputVars, thrown>>

\* line 67: html2canvas of chunk i throws; the first rejection rejects Promise.all
CaptureRejects(i) ==
  /\ pc \notin {"idle", "loading"}
  /\ i \in DOMAIN cap /\ cap[i] = "pending"
  /\ cap' = [cap EXCEPT ![i] = "failed"]
  /\ settled' = Append(settled, i)
  /\ pc' = IF pc = "capturing" THEN ThrowTarget ELSE pc
  /\ thrown' = TRUE
  /\ UNCHANGED <<serviceVars, inputVars, seqVars, colorVars, liveDoc, active, generatingPdf, callerError, chunks, canvasH, attempts,
                 clones, assemblyVars, outputVars>>

\* lines 57, 223-244: every capture succeeded; Promise.all resolves
AllResolved ==
  /\ pc = "capturing"
  /\ AllDelivered(cap)
  /\ results' = Results(chunks, canvasH, settled)
  /\ totalHeight' = TotalHeight(results', dom, pdfMode)
  /\ useSinglePage' = UseSinglePage(totalHeight', pdfMode)
  /\ pages' = <<>> /\ placements' = <<>>
  /\ currentY' = 0 /\ prevWasCard' = FALSE
  /\ idx' = 1
  /\ pc' = "assembling"
  /\ UNCHANGED <<serviceVars, inputVars, seqVars, colorVars, liveDoc, active, generatingPdf, callerError, captureVars, outputVars, thrown>>

\* lines 249-284: what the iteration for results[idx] computes before it
\* calls pdf.addImage: the pages of the document and the offset of the chunk
Iteration ==
  LET r      == results[idx]
      chunkH == ChunkH(r)
      firstEl == FirstEl(r.item)
      isCard == IsCardEl(dom, firstEl)
      hasBreakBefore == El(dom, firstEl).brk
      effectiveGap == EffectiveGap(isCard, prevWasCard, pdfMode)
      first  == Len(pages) = 0
      newPage == /\ ~first /\ ~useSinglePage
                 /\ NeedsNewPage(hasBreakBefore, currentY, chunkH,
                                 effectiveGap, pages[Len(pages)])
      pgs    == IF first
                THEN <<IF useSinglePage THEN totalHeight
                                        ELSE NewPageHeight(chunkH)>>
                ELSE IF newPage THEN Append(pages, NewPageHeight(chunkH))
                ELSE pages
  IN  [item |-> r.item, pages |-> pgs, h |-> chunkH, isCard |-> isCard,
       y |-> NextY(first \/ newPage, currentY, effectiveGap),
       gap |-> IF first THEN 0 ELSE effectiveGap]

\* lines 246-289: one iteration of the placement loop
PlaceChunk ==
  /\ pc = "assembling"
  /\ idx <= Len(results)
  /\ LET it == Iteration
     IN  /\ pages' = it.pages
         /\ placements' = Append(placements,
               [item |-> it.item, page |-> Len(it.pages), y |-> it.y,
                h |-> it.h, gap |-> it.gap])
         /\ currentY' = it.y + it.h
         /\ prevWasCard' = it.isCard
  /\ idx' = idx + 1
  /\ UNCHANGED <<serviceVars, inputVars, seqVars, colorVars, liveDoc, active,
                 pc, generatingPdf, callerError, captureVars, results,
                 totalHeight, useSinglePage, outputVars, thrown>>

\* the calls of one iteration that can throw
PlaceStages == {"toDataURL", "addImage"}

\* lines 249, 261, 275, 286: a call of the iteration throws.  When it is
\* canvas.toDataURL, new jsPDF or pdf.addPage the iteration has changed
\* nothing yet; when it is pdf.addImage the page was already created or
\* added and currentY already moved.
PlaceThrows(stage) ==
  /\ pc = "assembling"
  /\ idx <= Len(results)
  /\ IF stage = "addImage"
     THEN /\ pages' = Iteration.pages
          /\ currentY' = Iteration.y
     ELSE UNCHANGED <<pages, currentY>>
  /\ pc' = ThrowTarget
  /\ thrown' = TRUE
  /\ UNCHANGED <<serviceVars, inputVars, seqVars, colorVars, liveDoc, active,
                 generatingPdf, callerError, captureVars, results,
                 totalHeight, useSinglePage, idx, placements, prevWasCard,
                 outputVars>>

\* lines 291-292: the document is written
FinishSave ==
  /\ pc = "assembling"
  /\ idx > Len(results)
  /\ HasPdf(pages)
  /\ saved' = TRUE
  /\ pc' = "returned"
  /\ UNCHANGED <<serviceVars, inputVars, seqVars, colorVars, liveDoc, active, generatingPdf, callerError, captureVars, assemblyVars,
                 alerts, logged, thrown>>

\* line 292: pdf.save throws
SaveThrows ==
  /\ pc = "assembling"
  /\ idx > Len(results)
  /\ HasPdf(pages)
  /\ pc' = ThrowTarget
  /\ thrown' = TRUE
  /\ UNCHANGED <<serviceVars, inputVars, seqVars, colorVars, liveDoc, active, generatingPdf, callerError, captureVars, assemblyVars, outputVars>>

\* lines 293-295: nothing was placed
FinishNoData ==
  /\ pc = "assembling"
  /\ idx > Len(results)
  /\ ~HasPdf(pages)
  /\ alerts' = Append(alerts, "No data available to generate report.")
  /\ pc' = "returned"
  /\ UNCHANGED <<serviceVars, inputVars, seqVars, colorVars, liveDoc, active, generatingPdf, callerError, captureVars, assemblyVars,
                 saved, logged, thrown>>

\* lines 296-299
Catch ==
  /\ pc = "caught"
  /\ logged' = logged + 1
  /\ alerts' = Append(alerts, "PDF generation failed. Check console for details.")
  /\ pc' = "returned"
  /\ UNCHANGED <<serviceVars, inputVars, seqVars, colorVars, liveDoc, active, generatingPdf, callerError, captureVars, assemblyVars,
                 saved, thrown>>

\* the flag is left as it is when the handler ends
FlagAfterFinally_Kept(generating) == generating

\* App.tsx 52-54: finally { setGeneratingPdf(false) }
FlagAfterFinally(generating) == FALSE

\* App.tsx 49-54: the await in handleDownloadPDF returns or throws
HandlerResume ==
  /\ pc \in {"returned", "rejected"}
  /\ callerError' = (pc = "rejected")
  /\ generatingPdf' = FlagAfterFinally(generatingPdf)
  /\ active' = active - 1
  /\ pc' = "done"
  /\ UNCHANGED <<serviceVars, inputVars, seqVars, colorVars, liveDoc, captureVars, assemblyVars, outputVars, thrown>>

CaptureClones == \E i \in DOMAIN cap : OnClone(i)

CaptureSettles ==
  \E i \in DOMAIN cap :
     \/ \E h \in PipeCanvasHeights : CaptureResolves(i, h)
     \/ CaptureRejects(i)

Next ==
  \/ Click
  \/ \E m \in Modes : SetPdfMode(m)
  \/ ImportsResolved
  \/ ImportsRejected
  \/ PlanThrows
  \/ CaptureClones
  \/ CaptureSettles
  \/ AllResolved
  \/ PlaceChunk
  \/ \E stage \in PlaceStages : PlaceThrows(stage)
  \/ FinishSave
  \/ SaveThrows
  \/ FinishNoData
  \/ Catch
  \/ HandlerResume

Spec == Init /\ [][Next]_vars

(***************************************************************************)
(* The export run under fairness: the imports settle, every capture        *)
(* settles, and the event loop runs every continuation that is ready.      *)
(* A press of the button is never forced.                                  *)
(***************************************************************************)
RunProgress ==
  \/ ImportsResolved
  \/ ImportsRejected
  \/ PlanThrows
  \/ CaptureClones
  \/ CaptureSettles
  \/ AllResolved
  \/ PlaceChunk
  \/ \E stage \in PlaceStages : PlaceThrows(stage)
  \/ FinishSave
  \/ SaveThrows
  \/ FinishNoData
  \/ Catch
  \/ HandlerResume

\* the page before the Download button is pressed, over the smaller DOMs of
\* the fairness specification
InitLive ==
  /\ pdfMode \in Modes
  /\ hasContainer \in BOOLEAN
  /\ dom \in (IF hasContainer THEN SeqsUpTo(PipeNodeTypes, MaxLiveNodes)
                               ELSE {<<>>})
  /\ pc = "idle" /\ generatingPdf = FALSE /\ active = 0
  /\ chunks = <<>> /\ cap = <<>> /\ canvasH = <<>> /\ settled = <<>>
  /\ attempts = <<>> /\ clones = <<>>
  /\ InitRun
  /\ NoStyle
  /\ NoSeq
  /\ NoGuard
  /\ NoAgents

SpecLive == InitLive /\ [][Next]_vars /\ WF_vars(RunProgress)

(***************************************************************************)
(* The Chunk Planner on its own: every DOM over PlanNodeTypes, planned by  *)
(* the step of downloadPDF that follows the imports.                       *)
(***************************************************************************)
InitPlan ==
  /\ pdfMode \in Modes
  /\ hasContainer = TRUE
  /\ dom \in SeqsUpTo(PlanNodeTypes, MaxPlanNodes)
  /\ pc = "loading" /\ generatingPdf = TRUE /\ active = 1
  /\ chunks = <<>> /\ cap = <<>> /\ canvasH = <<>> /\ settled = <<>>
  /\ attempts = <<>> /\ clones = <<>>
  /\ InitRun
  /\ NoStyle
  /\ NoSeq
  /\ NoGuard
  /\ NoAgents

NextPlan == ImportsResolved

SpecPlan == InitPlan /\ [][NextPlan]_vars

(***************************************************************************)
(* The Page Assembler on its own: every DOM over PageNodeTypes, every      *)
(* capture delivered with a height of PageCanvasHeights.                   *)
(***************************************************************************)
InitPages ==
  /\ pdfMode \in Modes
  /\ hasContainer = TRUE
  /\ dom \in SeqsUpTo(PageNodeTypes, MaxPageNodes)
  /\ pc = "capturing" /\ generatingPdf = TRUE /\ active = 1
  /\ chunks = PlanChunks(dom, pdfMode)
  /\ cap = [i \in 1..Len(chunks) |-> "ok"]
  /\ canvasH \in [1..Len(chunks) -> PageCanvasHeights]
  /\ settled = Identity(Len(chunks))
  /\ attempts = LaunchAttempts(chunks)
  /\ InitRun
  /\ NoStyle
  /\ NoSeq
  /\ NoGuard
  /\ NoAgents
  /\ clones = [i \in 1..Len(chunks) |->
                 OnCloneDoc(CloneDocument(liveDoc), dom, title, inGrid,
                            CapturedGroup(chunks, i))]

NextPages ==
  \/ AllResolved
  \/ PlaceChunk
  \/ FinishSave
  \/ FinishNoData

SpecPages == InitPages /\ [][NextPages]_vars

(***************************************************************************)
(* The Color Normalizer on its own: a style string of the cloned document  *)
(* of a capture, normalized by the passes of onclone.                      *)
(***************************************************************************)
StyleTokens == ModernNames \cup {"(", ")", " ", "x"}
InnerTokens == {"oklch", "(", ")", " ", "x"}

Rep(tok, n) == [i \in 1..n |-> tok]

\* a string inside a..b opening and closing parentheses after a name
WrappedStrings ==
  {<<nm>> \o Rep("(", a) \o inner \o Rep(")", b) :
     nm \in ModernNames, a \in 0..MaxNest, b \in 0..MaxNest,
     inner \in SeqsUpTo(InnerTokens, MaxInnerLen)}

StyleStrings == SeqsUpTo(StyleTokens, MaxStyleLen) \cup WrappedStrings

InitColor ==
  /\ pdfMode = "standard"
  /\ hasContainer = TRUE
  /\ dom = <<Node("header", FALSE, FALSE, 0)>>
  /\ pc = "capturing" /\ generatingPdf = TRUE /\ active = 1
  /\ chunks = PlanChunks(dom, pdfMode)
  /\ cap = [i \in 1..Len(chunks) |-> "pending"]
  /\ canvasH = [i \in 1..Len(chunks) |-> 0]
  /\ settled = <<>>
  /\ attempts = LaunchAttempts(chunks)
  /\ clones = [i \in 1..Len(chunks) |-> NoClone]
  /\ InitRun
  /\ theme \in {"light", "dark"}
  /\ convCtx \in BOOLEAN
  /\ target = "none"
  /\ styleInput \in StyleStrings
  /\ styleText = styleInput
  /\ stylePrev = styleInput
  /\ passes = 0
  /\ NoSeq
  /\ NoGuard
  /\ NoAgents

\* one pass over a style tag body, an inline style or a rule text
NormalizeStyleText ==
  /\ passes < MaxPasses
  /\ target \in {"none", "css"}
  /\ \E outs \in [1..CountMatches(styleText, 1) -> CanvasOutcomes] :
        styleText' = NormalizeCss(styleText, theme, convCtx, outs)
  /\ stylePrev' = styleText
  /\ target' = "css"
  /\ passes' = passes + 1
  /\ UNCHANGED <<serviceVars, inputVars, seqVars, theme, convCtx, styleInput, liveDoc, active, pc,
                 generatingPdf, callerError, captureVars, assemblyVars,
                 outputVars, thrown>>

\* one pass over a fill or stroke attribute
NormalizeSvgAttr ==
  /\ passes < MaxPasses
  /\ target \in {"none", "svg"}
  /\ \E outcome \in CanvasOutcomes :
        styleText' = NormalizeAttr(styleText, theme, convCtx, outcome)
  /\ stylePrev' = styleText
  /\ target' = "svg"
  /\ passes' = passes + 1
  /\ UNCHANGED <<serviceVars, inputVars, seqVars, theme, convCtx, styleInput, liveDoc, active, pc,
                 generatingPdf, callerError, captureVars, assemblyVars,
                 outputVars, thrown>>

NextColor ==
  \/ NormalizeStyleText
  \/ NormalizeSvgAttr

SpecColor == InitColor /\ [][NextColor]_vars

(***************************************************************************)
(* The sequential variant of downloadPDF (lines 309-549): the chunks are   *)
(* captured one after the other, each with up to three attempts, and every *)
(* canvas becomes a page of its own.  pc:                                  *)
(*   seq_awaiting  awaiting html2canvas of chunk idx (line 377)            *)
(*   seq_pausing   awaiting the 500 ms pause after a throw (line 514)      *)
(* Every attempt clones the document anew: clones[idx] is the clone of the *)
(* attempt in flight.                                                      *)
(* The DOMs are those of header elements, for which the planner of this    *)
(* variant gives one singleton chunk per element, as PlanChunks does.      *)
(***************************************************************************)
\* line 373: let retries = 3
SeqRetries == 3

\* the error of the last attempt is swallowed
RetryExhausted_Never(r) == FALSE

\* line 513: if (retries === 0) throw e
RetryExhausted(r) == r = 0

\* line 375: while (retries > 0 && !canvas)
RetryAgain(r, hasCanvas) == r > 0 /\ ~hasCanvas

\* App.tsx 435: pdfQuality === 'high' ? 2 : 1
SeqScales == {1, 2}

\* line 524: canvas.height / scale, in half pixels
SeqPageHeight(h, sc) == (h * HalfPerPx) \div sc

SeqNodeTypes == {Node("header", FALSE, b, 0) : b \in BOOLEAN}

InitSeq ==
  /\ pdfMode = "standard"
  /\ hasContainer = TRUE
  /\ dom \in SeqsUpTo(SeqNodeTypes, MaxSeqNodes)
  /\ pc = "seq_awaiting" /\ generatingPdf = TRUE /\ active = 1
  /\ chunks = PlanChunks(dom, pdfMode)
  /\ cap = [i \in 1..Len(chunks) |-> "pending"]
  /\ canvasH = [i \in 1..Len(chunks) |-> 0]
  /\ settled = <<>>
  /\ attempts = [i \in 1..Len(chunks) |-> IF i = 1 THEN 1 ELSE 0]
  /\ clones = [i \in 1..Len(chunks) |-> NoClone]
  /\ appPdfMode = pdfMode
  /\ callerError = FALSE
  /\ results = <<>> /\ totalHeight = 0 /\ useSinglePage = FALSE /\ idx = 1
  /\ pages = <<>> /\ placements = <<>> /\ currentY = 0 /\ prevWasCard = FALSE
  /\ saved = FALSE /\ alerts = <<>> /\ logged = 0 /\ thrown = FALSE
  /\ title = [e \in 1..Len(dom) |-> 0]
  /\ inGrid = [e \in 1..Len(dom) |-> FALSE]
  /\ nestedIn = [e \in 1..Len(dom) |-> 0]
  /\ liveDoc = PristineDoc(dom)
  /\ NoStyle
  /\ retries = SeqRetries
  /\ scale \in SeqScales
  /\ throws = [i \in 1..Len(chunks) |-> 0]
  /\ pauses = [i \in 1..Len(chunks) |-> 0]
  /\ NoGuard
  /\ NoAgents

\* lines 361-377 and 541-545: the loop reaches chunk i with the pages pgs;
\* past the last chunk the document is saved or the no-data alert is raised,
\* otherwise the first attempt for chunk i is started
SeqEnter(i, pgs) ==
  /\ idx' = i
  /\ pages' = pgs
  /\ IF i > Len(chunks)
     THEN /\ pc' = "returned"
          /\ saved' = HasPdf(pgs)
          /\ alerts' = IF HasPdf(pgs) THEN alerts
                       ELSE Append(alerts, "No data available to generate report.")
          /\ UNCHANGED <<attempts, retries>>
     ELSE /\ pc' = "seq_awaiting"
          /\ attempts' = [attempts EXCEPT ![i] = @ + 1]
          /\ retries' = SeqRetries
          /\ UNCHANGED <<saved, alerts>>

\* the onclone callback of the sequential variant (lines 384-509), as far
\* as it sets the display of the annotated elements: the grid children are
\* shown or hidden by title for a card chunk; the style sheets, widths and
\* colors are the document-wide rewrites
SeqOnCloneDoc(doc, d, t, g, item) ==
  [display |-> SanitizeGrid(doc, d, t, g, item), sanitized |-> TRUE]

\* lines 377-509: html2canvas of chunk idx has cloned the document and
\* calls onclone
SeqOnClone ==
  /\ pc = "seq_awaiting"
  /\ clones[idx] = NoClone
  /\ clones' = [clones EXCEPT ![idx] =
                  SeqOnCloneDoc(CloneDocument(liveDoc), dom, title, inGrid,
                                chunks[idx])]
  /\ UNCHANGED <<serviceVars, inputVars, seqVars, colorVars, liveDoc, active,
                 pc, generatingPdf, callerError, chunks, cap, canvasH,
                 settled, attempts, assemblyVars, outputVars, thrown>>

\* lines 377, 520-545: html2canvas of chunk idx delivers a canvas of
\* height h, which becomes a page of its own with its image at the top; the
\* loop goes on to the next chunk, or to pdf.save after the last one
SeqCaptureResolves(h) ==
  /\ pc = "seq_awaiting"
  /\ clones[idx] # NoClone
  /\ cap' = [cap EXCEPT ![idx] = "ok"]
  /\ canvasH' = [canvasH EXCEPT ![idx] = h]
  /\ settled' = Append(settled, idx)
  /\ placements' = Append(placements,
        [item |-> chunks[idx], page |-> Len(pages) + 1, y |-> 0,
         h |-> SeqPageHeight(h, scale), gap |-> 0])
  /\ SeqEnter(idx + 1, Append(pages, SeqPageHeight(h, scale)))
  /\ UNCHANGED <<serviceVars, inputVars, colorVars, liveDoc, active,
                 generatingPdf, callerError, chunks, clones, results,
                 totalHeight, useSinglePage, currentY, prevWasCard, logged,
                 thrown, throws, pauses, scale>>

\* lines 522, 528-538: the canvas of chunk idx is delivered and a call that
\* follows throws, outside the retry loop and inside the outer try.  When
\* it is canvas.toDataURL, new jsPDF or pdf.addPage there is no new page;
\* when it is pdf.addImage the page is there without an image.
SeqPlaceThrows(h, stage) ==
  /\ pc = "seq_awaiting"
  /\ clones[idx] # NoClone
  /\ cap' = [cap EXCEPT ![idx] = "ok"]
  /\ canvasH' = [canvasH EXCEPT ![idx] = h]
  /\ settled' = Append(settled, idx)
  /\ pages' = IF stage = "addImage"
              THEN Append(pages, SeqPageHeight(h, scale))
              ELSE pages
  /\ pc' = ThrowTarget
  /\ thrown' = TRUE
  /\ UNCHANGED <<serviceVars, inputVars, colorVars, liveDoc, active,
                 generatingPdf, callerError, chunks, attempts, clones,
                 results, totalHeight, useSinglePage, idx, placements,
                 currentY, prevWasCard, outputVars, seqVars>>

\* lines 377, 520-542: the canvas of the last chunk is delivered and placed,
\* and pdf.save throws
SeqSaveThrows(h) ==
  /\ pc = "seq_awaiting"
  /\ clones[idx] # NoClone
  /\ idx = Len(chunks)
  /\ cap' = [cap EXCEPT ![idx] = "ok"]
  /\ canvasH' = [canvasH EXCEPT ![idx] = h]
  /\ settled' = Append(settled, idx)
  /\ placements' = Append(placements,
        [item |-> chunks[idx], page |-> Len(pages) + 1, y |-> 0,
         h |-> SeqPageHeight(h, scale), gap |-> 0])
  /\ pages' = Append(pages, SeqPageHeight(h, scale))
  /\ idx' = idx + 1
  /\ pc' = ThrowTarget
  /\ thrown' = TRUE
  /\ UNCHANGED <<serviceVars, inputVars, colorVars, liveDoc, active,
                 generatingPdf, callerError, chunks, attempts, clones,
                 results, totalHeight, useSinglePage, currentY, prevWasCard,
                 outputVars, seqVars>>

\* lines 510-514: html2canvas of chunk idx throws; the error is rethrown
\* when no retry is left, otherwise the pause starts
SeqCaptureThrows ==
  /\ pc = "seq_awaiting"
  /\ throws' = [throws EXCEPT ![idx] = @ + 1]
  /\ retries' = retries - 1
  /\ IF RetryExhausted(retries')
     THEN /\ pc' = ThrowTarget
          /\ thrown' = TRUE
          /\ cap' = [cap EXCEPT ![idx] = "failed"]
     ELSE /\ pc' = "seq_pausing"
          /\ UNCHANGED <<thrown, cap>>
  /\ UNCHANGED <<serviceVars, inputVars, colorVars, liveDoc, active, generatingPdf,
                 callerError, chunks, canvasH, settled, attempts, clones,
                 assemblyVars, outputVars, pauses, scale>>

\* lines 514, 375, 518: the pause is over; the loop condition decides
\* between another attempt and leaving the chunk out
SeqPauseEnds ==
  /\ pc = "seq_pausing"
  /\ pauses' = [pauses EXCEPT ![idx] = @ + 1]
  /\ IF RetryAgain(retries, cap[idx] = "ok")
     THEN /\ pc' = "seq_awaiting"
          /\ attempts' = [attempts EXCEPT ![idx] = @ + 1]
          /\ clones' = [clones EXCEPT ![idx] = NoClone]
          /\ UNCHANGED <<idx, pages, saved, alerts, retries>>
     ELSE /\ SeqEnter(idx + 1, pages)
          /\ UNCHANGED clones
  /\ UNCHANGED <<serviceVars, inputVars, colorVars, liveDoc, active, generatingPdf,
                 callerError, chunks, cap, canvasH, settled, results,
                 totalHeight, useSinglePage, placements, currentY,
                 prevWasCard, logged, thrown, throws, scale>>

\* App.tsx 436-440 (handleDownloadReport): the await returns; the flag is
\* cleared in finally
SeqHandlerResume ==
  /\ pc \in {"returned", "rejected"}
  /\ callerError' = (pc = "rejected")
  /\ generatingPdf' = FlagAfterFinally(generatingPdf)
  /\ active' = active - 1
  /\ pc' = "done"
  /\ UNCHANGED <<serviceVars, inputVars, seqVars, colorVars, liveDoc,
                 captureVars, assemblyVars, outputVars, thrown>>

NextSeq ==
  \/ \E h \in PipeCanvasHeights : SeqCaptureResolves(h)
  \/ \E h \in PipeCanvasHeights, stage \in PlaceStages :
        SeqPlaceThrows(h, stage)
  \/ \E h \in PipeCanvasHeights : SeqSaveThrows(h)
  \/ SeqOnClone
  \/ SeqCaptureThrows
  \/ SeqPauseEnds
  \/ Catch
  \/ SeqHandlerResume

SpecSeq == InitSeq /\ [][NextSeq]_vars

(***************************************************************************)
(* The DOM Clone Sanitizer on its own: every DOM of populated cards and    *)
(* headers, every assignment of data-pdf-title (0: absent) and of the      *)
(* elements' place in the tree (a child of the grid, inside another        *)
(* annotated element, or neither), planned and with all                    *)
(* captures started.                                                       *)
(***************************************************************************)
CloneNodeTypes ==
  {Node("header", FALSE, FALSE, 0)}
    \cup {Node("card", TRUE, FALSE, w) : w \in PipeCardWidths}

CloneTitles == {0, 1, 2}

InitClone ==
  /\ pdfMode \in Modes
  /\ hasContainer = TRUE
  /\ dom \in SeqsUpTo(CloneNodeTypes, MaxCloneNodes)
  /\ title \in [1..Len(dom) -> CloneTitles]
  /\ \A e \in 1..Len(dom) : dom[e].role # "card" => title[e] = 0
  /\ inGrid \in [1..Len(dom) -> BOOLEAN]
  /\ \A e \in 1..Len(dom) : dom[e].role # "card" => ~inGrid[e]
  /\ nestedIn \in [1..Len(dom) -> 0..(MaxCloneNodes - 1)]
  /\ TreeShape(inGrid, nestedIn)
  /\ pc = "capturing" /\ generatingPdf = TRUE /\ active = 1
  /\ chunks = PlanChunks(dom, pdfMode)
  /\ cap = [i \in 1..Len(chunks) |-> "pending"]
  /\ canvasH = [i \in 1..Len(chunks) |-> 0]
  /\ settled = <<>>
  /\ attempts = LaunchAttempts(chunks)
  /\ clones = [i \in 1..Len(chunks) |-> NoClone]
  /\ appPdfMode = pdfMode
  /\ callerError = FALSE
  /\ results = <<>> /\ totalHeight = 0 /\ useSinglePage = FALSE /\ idx = 0
  /\ pages = <<>> /\ placements = <<>> /\ currentY = 0 /\ prevWasCard = FALSE
  /\ saved = FALSE /\ alerts = <<>> /\ logged = 0 /\ thrown = FALSE
  /\ liveDoc = PristineDoc(dom)
  /\ NoStyle
  /\ NoSeq
  /\ NoGuard
  /\ NoAgents

NextClone == CaptureClones

SpecClone == InitClone /\ [][NextClone]_vars

(***************************************************************************)
(* Properties of the Chunk Planner (SpecPlan).                             *)
(***************************************************************************)
RECURSIVE SumWidths(_, _)
SumWidths(d, row) ==
  IF Len(row) = 0 THEN 0 ELSE MeasuredWidth(d, Head(row)) + SumWidths(d, Tail(row))

\* summed measured widths plus the gaps between the members of a row
RowExtent(d, row, mode) == SumWidths(d, row) + CardGap(mode) * (Len(row) - 1)

GroupChunks == {i \in DOMAIN chunks : chunks[i].isGroup}

\* C1 as stated: every group chunk of the plan, whatever the card widths,
\* has summed widths plus inter-card gaps of at most 1400.
C1_RowWithinBudget ==
  \A i \in GroupChunks : RowExtent(dom, chunks[i].els, pdfMode) <= ROW_BUDGET

\* C1 amended: a group chunk has summed widths plus inter-card gaps of at
\* most 1400 unless it is a single card that is itself wider than 1400.
C1_RowWithinBudgetUnlessOversizedCard ==
  \A i \in GroupChunks :
     \/ RowExtent(dom, chunks[i].els, pdfMode) <= ROW_BUDGET
     \/ /\ Len(chunks[i].els) = 1
        /\ MeasuredWidth(dom, chunks[i].els[1]) > ROW_BUDGET

\* a row of several cards that fills the budget exactly, next to an
\* oversized card in a row of its own
C1_Witness ==
  /\ pc = "capturing"
  /\ \E i \in GroupChunks :
        /\ Len(chunks[i].els) >= 2
        /\ RowExtent(dom, chunks[i].els, pdfMode) = ROW_BUDGET
  /\ \E i \in GroupChunks : MeasuredWidth(dom, chunks[i].els[1]) > ROW_BUDGET

RECURSIVE GroupMembers(_)
GroupMembers(ch) ==
  IF Len(ch) = 0 THEN <<>>
  ELSE (IF Head(ch).isGroup THEN Head(ch).els ELSE <<>>) \o GroupMembers(Tail(ch))

PopulatedCard(e) == e > 0 /\ dom[e].role = "card" /\ dom[e].populated
KeptByFilter(e)  == e = 0 \/ dom[e].role # "card" \/ dom[e].populated

\* C6: no unpopulated card is in any chunk; the members of the group chunks,
\* in output order, are the populated cards in document order, each once;
\* the plan is the plan of the same elements without the unpopulated cards.
C6_OnlyPopulatedCards ==
  pc = "capturing" =>
    /\ \A i \in DOMAIN chunks : \A k \in DOMAIN chunks[i].els :
          LET e == chunks[i].els[k]
          IN  IsCardEl(dom, e) => (chunks[i].isGroup /\ dom[e].populated)
    /\ GroupMembers(chunks) = SelectSeq(Identity(Len(dom)), PopulatedCard)
    /\ chunks = PackRows(SelectSeq(RawChunks(dom), KeptByFilter), dom, pdfMode)

\* two populated cards share a row across an unpopulated card between them
C6_Witness ==
  /\ pc = "capturing"
  /\ \E i \in GroupChunks : \E k \in 1..(Len(chunks[i].els) - 1) :
        LET a == chunks[i].els[k]
            b == chunks[i].els[k + 1]
        IN  /\ b = a + 2
            /\ dom[a + 1].role = "card" /\ ~dom[a + 1].populated

(***************************************************************************)
(* Properties of the whole export run (Spec).                              *)
(***************************************************************************)
FailureAlert == "PDF generation failed. Check console for details."
NoDataAlert  == "No data available to generate report."
Finished     == pc \in {"returned", "done"}

PlacedItems == {placements[k].item : k \in DOMAIN placements}

\* C2 as stated: when one capture throws and another succeeds, the run
\* still saves a document holding the captured chunks, without a failure
\* alert.
C2_PartialFailureStillSaves ==
  ( /\ pc = "done"
    /\ \A i \in DOMAIN cap : cap[i] # "pending"
    /\ \E i \in DOMAIN cap : cap[i] = "failed"
    /\ \E i \in DOMAIN cap : cap[i] = "ok" )
  => /\ saved
     /\ PlacedItems = {chunks[i] : i \in {j \in DOMAIN cap : cap[j] = "ok"}}
     /\ alerts = <<>>

ChunkPos(item) == CHOOSE i \in DOMAIN chunks : chunks[i] = item

\* C3: the plan is in document order, and whatever order the captures
\* finished in, a chunk earlier in the plan is placed on an earlier page or
\* on the same page at a smaller offset.
C3_DocumentOrder ==
  /\ \A i, j \in DOMAIN chunks :
        i < j => \A a \in DOMAIN chunks[i].els : \A b \in DOMAIN chunks[j].els :
                    chunks[i].els[a] < chunks[j].els[b]
  /\ \A p, q \in DOMAIN placements :
        ChunkPos(placements[p].item) < ChunkPos(placements[q].item) =>
           \/ placements[p].page < placements[q].page
           \/ /\ placements[p].page = placements[q].page
              /\ placements[p].y < placements[q].y

\* a saved document of three chunks whose captures finished in reverse order
C3_Witness ==
  /\ saved
  /\ Len(placements) = 3
  /\ settled = <<3, 2, 1>>

EmptyPlan == hasContainer /\ PlanChunks(dom, pdfMode) = <<>>

\* C7: with an empty chunk plan the run saves no file, raises exactly one
\* alert (the no-data alert unless something threw) and resolves.
C7_EmptyPlanAlertsOnce ==
  EmptyPlan =>
    /\ ~saved
    /\ pc # "rejected" /\ ~callerError
    /\ Finished => /\ Len(alerts) = 1
                   /\ ~thrown => alerts = <<NoDataAlert>>

\* only unpopulated cards in the report: the no-data alert, no file
C7_Witness ==
  /\ pc = "done"
  /\ Len(dom) > 0 /\ EmptyPlan
  /\ ~thrown /\ alerts = <<NoDataAlert>> /\ ~saved

\* C8: the promise of downloadPDF never rejects and the caller's catch
\* branch never runs; once a run that threw has returned, the error was
\* logged once and the failure alert was shown.
C8_NeverRejects ==
  /\ pc # "rejected"
  /\ ~callerError
  /\ (thrown /\ Finished) => (logged = 1 /\ alerts = <<FailureAlert>> /\ ~saved)

\* a run that threw during page assembly and has returned to the caller
C8_Witness ==
  /\ pc = "done"
  /\ thrown /\ Len(results) > 0
  /\ logged = 1 /\ ~callerError

(***************************************************************************)
(* Properties of page assembly (SpecPages).                                *)
(***************************************************************************)
\* C4: the bottom edge of every placed chunk is within the declared height
\* of its page.
C4_ChunkWithinPage ==
  \A k \in DOMAIN placements :
     placements[k].y + placements[k].h <= pages[placements[k].page]

\* a paginated document with a chunk placed below another on a shared page
C4_Witness ==
  /\ pc = "returned" /\ saved
  /\ ~useSinglePage
  /\ \E k \in DOMAIN placements :
        placements[k].y > 0 /\ placements[k].page >= 2

\* chunk k was placed at the top of a page added for it
FreshPage(k) ==
  /\ placements[k].y = 0
  /\ placements[k].page >= 2
  /\ k > 1 => placements[k - 1].page < placements[k].page

\* C5 as stated: every element with the break-before marker that is in the
\* document, other than the very first element of the document, is in a
\* chunk placed at the top of a page added for it.
C5_BreakStartsPage ==
  \A k \in DOMAIN placements : \A m \in DOMAIN placements[k].item.els :
     LET e == placements[k].item.els[m]
     IN  (El(dom, e).brk /\ ~(k = 1 /\ m = 1)) => FreshPage(k)

\* C5 amended: in multi-page mode every chunk but the first whose first
\* element has the break-before marker is placed at the top of a page added
\* for it.
C5_BreakStartsPageWhenPaginating ==
  \A k \in DOMAIN placements :
     (k > 1 /\ ~useSinglePage /\ El(dom, FirstEl(placements[k].item)).brk)
       => FreshPage(k)

\* a marked chunk that would have fitted below its predecessor
C5_Witness ==
  /\ pc = "returned" /\ ~useSinglePage
  /\ \E k \in DOMAIN placements :
        /\ k > 1
        /\ El(dom, FirstEl(placements[k].item)).brk
        /\ placements[k - 1].y + placements[k - 1].h + Px(CHUNK_GAP(pdfMode))
             + placements[k].h <= pages[placements[k - 1].page]
        /\ FreshPage(k)

BothCards(i) ==
  /\ IsCardEl(dom, FirstEl(results[i].item))
  /\ IsCardEl(dom, FirstEl(results[i - 1].item))

\* the gap before chunk i, in half pixels
GapBefore(i) ==
  Px(IF BothCards(i) THEN CardGap(pdfMode) ELSE CHUNK_GAP(pdfMode))

RECURSIVE SumOf(_, _)
SumOf(f, S) ==
  IF S = {} THEN 0
  ELSE LET x == CHOOSE y \in S : TRUE IN f[x] + SumOf(f, S \ {x})

HeightsPlusGaps ==
  SumOf([i \in DOMAIN results |-> ChunkH(results[i])], DOMAIN results)
    + SumOf([i \in DOMAIN results |-> IF i = 1 THEN 0 ELSE GapBefore(i)],
            DOMAIN results)

\* C9: totalHeight is the sum of the chunk heights plus the effective gap
\* before every chunk but the first, and a document whose totalHeight is at
\* most the threshold of the density has exactly one page.
C9_SinglePageUpToThreshold ==
  pc \in {"assembling", "returned"} =>
    /\ totalHeight = HeightsPlusGaps
    /\ (saved /\ totalHeight <= Px(SINGLE_PAGE_THRESHOLD(pdfMode))) => Len(pages) = 1

\* several chunks adding up to exactly the threshold, on one page
C9_Witness ==
  /\ pc = "returned" /\ saved
  /\ Len(results) >= 2
  /\ totalHeight = Px(SINGLE_PAGE_THRESHOLD(pdfMode))
  /\ Len(pages) = 1

\* C10 as stated: a document whose totalHeight exceeds the threshold has
\* more than one page.
C10_OverThresholdPaginates ==
  (saved /\ totalHeight > Px(SINGLE_PAGE_THRESHOLD(pdfMode))) => Len(pages) > 1

\* C10 amended: a document of at least two chunks whose totalHeight exceeds
\* the threshold has more than one page.
C10_OverThresholdPaginatesSeveralChunks ==
  (saved /\ totalHeight > Px(SINGLE_PAGE_THRESHOLD(pdfMode)) /\ Len(results) >= 2)
    => Len(pages) > 1

\* three chunks over the threshold on two pages
C10_Witness ==
  /\ pc = "returned" /\ saved
  /\ totalHeight > Px(SINGLE_PAGE_THRESHOLD(pdfMode))
  /\ Len(results) = 3
  /\ Len(pages) = 2

\* heights of the chunks before k plus the gaps before chunks 2..k
OffsetOf(k) ==
  SumOf([i \in DOMAIN results |-> ChunkH(results[i])], 1..(k - 1))
    + SumOf([i \in DOMAIN results |-> GapBefore(i)], 2..k)

\* C11: in single-page mode the one page has height totalHeight, chunk k is
\* placed at the heights of the chunks before it plus the effective gaps
\* before chunks 2..k, and after the last chunk the cursor is totalHeight.
C11_SinglePageLayout ==
  (useSinglePage /\ Len(placements) > 0) =>
    /\ pages = <<totalHeight>>
    /\ \A k \in DOMAIN placements :
          /\ placements[k].page = 1
          /\ placements[k].item = results[k].item
          /\ placements[k].y = OffsetOf(k)
    /\ pc = "returned" => currentY = totalHeight

\* a single page holding a card row below another card row
C11_Witness ==
  /\ pc = "returned" /\ saved /\ useSinglePage
  /\ Len(placements) = 2
  /\ BothCards(2)
  /\ placements[2].y = placements[1].h + Px(CardGap(pdfMode))
  /\ currentY = totalHeight

\* C12: when the report root element is absent, a run loads no library,
\* plans and starts no capture, saves no file, shows no alert, logs nothing
\* and resolves normally to its caller.
C12_AbsentRootIsNoOp ==
  ~hasContainer =>
    /\ pc \in {"idle", "returned", "done"}
    /\ chunks = <<>> /\ cap = <<>> /\ attempts = <<>> /\ clones = <<>>
    /\ pages = <<>> /\ placements = <<>>
    /\ ~saved /\ alerts = <<>> /\ logged = 0
    /\ ~thrown /\ ~callerError

\* a run without a report root has been started and has ended
C12_Witness ==
  /\ ~hasContainer
  /\ pc = "done"
  /\ active = 0
  /\ ~generatingPdf

\* C13: no step of an export changes the live document, whatever the
\* outcome: the sanitizer writes to the clones only, and the elements, their
\* titles and their live styles stay as they were before the export.
C13_LiveDomUnchanged ==
  [][liveDoc' = liveDoc /\ dom' = dom /\ title' = title]_vars

\* an export has saved its file after sanitizing a clone in which a card is
\* hidden, and the live document still shows every element as before
C13_Witness ==
  /\ pc = "done" /\ saved
  /\ \E i \in DOMAIN clones :
        /\ clones[i] # NoClone
        /\ clones[i].sanitized
        /\ \E e \in DOMAIN dom : clones[i].display[e] = "none"
  /\ liveDoc = PristineDoc(dom)

\* titles of the cards of chunk i
OwnTitles(i) == VisibleTitles(title, chunks[i])

\* C14: the clone rendered by a capture shows the sanitization of its own
\* chunk only: a card of the grid is hidden exactly when its title is not
\* one of the chunk's own cards, it is laid out as a flex column exactly
\* when it is, the clone of a chunk that is not a card row hides or restyles
\* no card, and a header is laid out the same way in every clone,
\* whatever the other captures have done in the meantime.
C14_CloneDependsOnOwnChunk ==
  \A i \in DOMAIN clones :
    clones[i] # NoClone =>
      /\ clones[i].sanitized
      /\ \A e \in DOMAIN dom :
            IF IsCardEl(dom, FirstEl(chunks[i])) /\ inGrid[e]
            THEN clones[i].display[e] =
                   (IF title[e] \in OwnTitles(i) THEN "flex" ELSE "none")
            ELSE clones[i].display[e] =
                   (IF dom[e].role = "header" THEN "flex" ELSE "")

\* two captures run at once, both have sanitized their clones, and the two
\* clones hide different cards
C14_Witness ==
  \E i, j \in DOMAIN clones :
    /\ i # j
    /\ cap[i] = "pending" /\ cap[j] = "pending"
    /\ clones[i] # NoClone /\ clones[j] # NoClone
    /\ \E e \in DOMAIN dom :
          clones[i].display[e] = "none" /\ clones[j].display[e] = "flex"

\* C15: no page exists and no chunk is placed unless every launched capture
\* has delivered its canvas.
C15_AssemblyAfterAllCaptures ==
  (pc = "assembling" \/ pages # <<>> \/ placements # <<>>) =>
    \A i \in DOMAIN cap : cap[i] = "ok"

\* the first chunk of a plan of three has been placed
C15_Witness ==
  /\ pc = "assembling"
  /\ Len(cap) = 3
  /\ Len(placements) = 1
  /\ Len(pages) = 1

\* C16: the pipeline assembles no page, shows no alert and does not return
\* to its caller while a started capture is still unsettled.
C16_NoStepBeforeAllSettled ==
  (pc \in {"assembling", "returned", "done"} \/ alerts # <<>> \/ pages # <<>>) =>
    \A i \in DOMAIN cap : cap[i] # "pending"

\* C17: at most one export run is in progress at any time.
C17_AtMostOneRun ==
  /\ active <= 1
  /\ active = 1 => generatingPdf

\* a run is capturing, the button is disabled, and no second run has started
C17_Witness ==
  /\ active = 1
  /\ generatingPdf
  /\ ButtonDisabled(generatingPdf)
  /\ pc = "capturing"
  /\ \E i \in DOMAIN cap : cap[i] = "pending"

\* C18: a chunk whose capture has failed terminally was attempted at least
\* twice.
C18_RetriedBeforeTerminal ==
  \A i \in DOMAIN cap : cap[i] = "failed" => attempts[i] >= 2

\* the string holds none of the three function names
NameFree(s) == \A k \in DOMAIN s : s[k] \notin {"oklch", "oklab", "color-mix"}

\* opening minus closing parentheses among s[q..k]
Balance(s, q, k) ==
  Cardinality({j \in q..k : s[j] = "("}) - Cardinality({j \in q..k : s[j] = ")"})

\* s[p..r] is a call of one of the three functions: the name at p, optional
\* white space, and from q to r a balanced argument list that opens at most
\* inner levels of parentheses inside its own
CallSpan(s, p, r, inner) ==
  /\ ~NameFree(<<s[p]>>)
  /\ \E q \in (p + 1)..r :
        /\ \A k \in (p + 1)..(q - 1) : s[k] = " "
        /\ s[q] = "("
        /\ Balance(s, q, r) = 0
        /\ \A k \in q..(r - 1) : Balance(s, q, k) \in 1..(inner + 1)

\* position p begins a call with a balanced argument list nested at most
\* two levels deep
WellFormedCall(s, p) == \E r \in p..Len(s) : CallSpan(s, p, r, 2)

\* every occurrence of a function name lies within such a call, as its name
\* or among its arguments
EveryNameInCall(s) ==
  \A k \in DOMAIN s :
    ~NameFree(<<s[k]>>) =>
       \E p \in 1..k : \E r \in k..Len(s) : CallSpan(s, p, r, 2)

\* s contains no call of the three functions, however deep its argument
\* list is nested
CallFree(s) ==
  \A p \in DOMAIN s : \A r \in p..Len(s) : ~CallSpan(s, p, r, Len(s))

\* deepest nesting of parentheses anywhere in s
ParenDepth(s) ==
  LET ds == {0} \cup {Balance(s, q, k) : q \in DOMAIN s, k \in DOMAIN s}
  IN  CHOOSE d \in ds : \A e \in ds : e <= d

\* C19 (as stated): after a pass of the normalizer over a string, the string
\* contains no occurrence of the three color functions: no name followed by
\* an argument list.
C19_NoModernColorLeft ==
  passes >= 1 => CallFree(styleText)

\* C19 (amended): after a pass over a style text whose parentheses nest at
\* most three deep, the text contains no call of the three functions; after
\* a pass over a style text in which every function name lies within a call
\* with a balanced argument list nested at most two levels deep, and after
\* a pass over a fill or stroke value that held a name, the string contains
\* none of the three names.
C19_NoModernColorLeftWhenWellFormed ==
  /\ (target = "css" /\ passes >= 1 /\ ParenDepth(styleInput) <= 3)
        => CallFree(styleText)
  /\ (target = "css" /\ passes >= 1 /\ EveryNameInCall(styleInput))
        => NameFree(styleText)
  /\ (target = "svg" /\ passes >= 1) => NameFree(styleText)

\* a call with nested parentheses that holds, among its arguments, a name
\* beginning no call of its own (as oklab in color-mix(in oklab, ...)) has
\* been replaced by one color
C19_Witness ==
  /\ target = "css" /\ passes = 1
  /\ EveryNameInCall(styleInput)
  /\ ~(\A k \in DOMAIN styleInput :
         ~NameFree(<<styleInput[k]>>) => WellFormedCall(styleInput, k))
  /\ ParenDepth(styleInput) >= 2
  /\ NameFree(styleText)
  /\ Len(styleText) = 1

\* C20 (as stated): a string without the color functions is returned
\* unchanged, and a second pass over a normalized string changes nothing.
C20_UnchangedAndIdempotent ==
  /\ (passes >= 1 /\ NameFree(styleInput)) => styleText = styleInput
  /\ passes >= 2 => styleText = stylePrev

\* C20 (amended): a string without the color functions is returned
\* unchanged, and a second pass changes nothing when the parentheses of the
\* original string nest at most three deep.
C20_UnchangedAndIdempotentUpToDepth ==
  /\ (passes >= 1 /\ NameFree(styleInput)) => styleText = styleInput
  /\ (passes >= 2 /\ ParenDepth(styleInput) <= 3) => styleText = stylePrev

\* a string with a call and parentheses but no deeper nesting than three has
\* been normalized twice: the first pass replaced the call, the second
\* changed nothing
C20_Witness ==
  /\ target = "css" /\ passes = 2
  /\ ~NameFree(styleInput)
  /\ ParenDepth(styleInput) = 3
  /\ styleText = stylePrev
  /\ styleText # styleInput

(***************************************************************************)
(* The greedy packing as the specification words it: the gap counts as     *)
(* zero for the first member of a row.                                     *)
(***************************************************************************)
RefPackCard(st, d, e, mode) ==
  LET width == MeasuredWidth(d, e)
      gap   == IF Len(st.row) = 0 THEN 0 ELSE CardGap(mode)
  IN  IF st.w + width + gap <= 1400
      THEN [st EXCEPT !.row = Append(@, e), !.w = @ + width + gap]
      ELSE [chunks |-> IF Len(st.row) > 0
                       THEN Append(st.chunks, Group(st.row)) ELSE st.chunks,
            row |-> <<e>>, w |-> width]

RECURSIVE RefPackLoop(_, _, _, _)
RefPackLoop(st, raw, d, mode) ==
  IF Len(raw) = 0 THEN st
  ELSE LET e == Head(raw)
           nx == IF e # 0 /\ d[e].role = "card"
                 THEN (IF d[e].populated THEN RefPackCard(st, d, e, mode) ELSE st)
                 ELSE [chunks |-> Append(IF Len(st.row) > 0
                                         THEN Append(st.chunks, Group(st.row))
                                         ELSE st.chunks, Single(e)),
                       row |-> <<>>, w |-> 0]
       IN  RefPackLoop(nx, Tail(raw), d, mode)

RefPlan(d, mode) ==
  LET st == RefPackLoop(PackInit, RawChunks(d), d, mode)
  IN  IF Len(st.row) > 0 THEN Append(st.chunks, Group(st.row)) ELSE st.chunks

\* C21: the chunk plan is the reference greedy packing, in which a card joins
\* the row iff row width + card width + gap (zero for the first member of the
\* row) is at most 1400.
C21_PlanEqualsReference ==
  pc = "capturing" => chunks = RefPlan(dom, pdfMode)

\* the chunk holding element e
ChunkOf(e) ==
  CHOOSE i \in DOMAIN chunks : \E k \in DOMAIN chunks[i].els : chunks[i].els[k] = e

InPlan(e) == \E i \in DOMAIN chunks : \E k \in DOMAIN chunks[i].els : chunks[i].els[k] = e

\* C22: every group chunk is non-empty and holds cards only, every non-card
\* element is a singleton chunk, and a non-card element closes the pending
\* row: the cards before it are in chunks before its chunk, the cards after
\* it in chunks after its chunk.
C22_GroupsAndSingletons ==
  pc = "capturing" =>
    /\ \A i \in DOMAIN chunks :
          IF chunks[i].isGroup
          THEN /\ Len(chunks[i].els) >= 1
               /\ \A k \in DOMAIN chunks[i].els : IsCardEl(dom, chunks[i].els[k])
          ELSE /\ Len(chunks[i].els) = 1
               /\ ~IsCardEl(dom, chunks[i].els[1])
    /\ \A e \in DOMAIN dom : dom[e].role # "card" =>
          /\ InPlan(e)
          /\ chunks[ChunkOf(e)] = Single(e)
          /\ \A c \in DOMAIN dom : (InPlan(c) /\ c < e) => ChunkOf(c) < ChunkOf(e)
          /\ \A c \in DOMAIN dom : (InPlan(c) /\ c > e) => ChunkOf(c) > ChunkOf(e)

\* two cards that would fit into one row are planned as two rows because a
\* non-card element stands between them
C22_Witness ==
  /\ pc = "capturing"
  /\ Len(dom) = 3
  /\ PopulatedCard(1) /\ dom[2].role = "header" /\ PopulatedCard(3)
  /\ MeasuredWidth(dom, 1) + MeasuredWidth(dom, 3) + 2 * CardGap(pdfMode) <= 1400
  /\ chunks = <<Group(<<1>>), Single(2), Group(<<3>>)>>

\* C23: in multi-page mode the first page has height max(1980, height of the
\* first chunk); a later chunk opens a new page of height max(1980, its
\* height) at offset 0 iff it has the break-before flag or cursor + height +
\* effective gap exceeds the height of the current page, and is otherwise
\* placed on the current page at cursor + effective gap; a chunk fits the
\* page it opens.
C23_MultiPageLayout ==
  (~useSinglePage /\ Len(placements) > 0) =>
    /\ placements[1].page = 1 /\ placements[1].y = 0
    /\ pages[1] = Max(Px(1980), placements[1].h)
    /\ Len(pages) = placements[Len(placements)].page
    /\ \A k \in 2..Len(placements) :
          LET prev   == placements[k - 1]
              cur    == placements[k]
              cursor == prev.y + prev.h
              opens  == \/ El(dom, FirstEl(cur.item)).brk
                        \/ cursor + cur.h + GapBefore(k) > pages[prev.page]
          IN  IF opens
              THEN /\ cur.page = prev.page + 1
                   /\ cur.y = 0
                   /\ pages[cur.page] = Max(Px(1980), cur.h)
              ELSE /\ cur.page = prev.page
                   /\ cur.y = cursor + GapBefore(k)
    /\ \A k \in DOMAIN placements :
          placements[k].y = 0 => placements[k].h <= pages[placements[k].page]

\* two chunks share the first page and a third, taller than 1980, opens a
\* page of its own height
C23_Witness ==
  /\ pc = "returned" /\ saved /\ ~useSinglePage
  /\ Len(placements) = 3
  /\ placements[2].page = 1 /\ placements[2].y > placements[1].h
  /\ placements[3].page = 2 /\ placements[3].h > Px(1980)
  /\ pages = <<Px(1980), placements[3].h>>

\* C24: no gap precedes the first chunk; the gap of a later chunk is the
\* card gap of the density (0 HD, 20 Standard) when it and its predecessor
\* are card chunks and the chunk gap (10 HD, 30 Standard) otherwise; the
\* total height is computed with the same gaps the placement loop uses, and
\* a chunk that stays on its predecessor's page is offset by its gap.
C24_GapRule ==
  /\ \A k \in DOMAIN placements :
        /\ k = 1 => (placements[k].gap = 0 /\ placements[k].y = 0)
        /\ k > 1 =>
             /\ placements[k].gap =
                  (IF BothCards(k)
                   THEN (IF pdfMode = "hd" THEN 0 ELSE 20)
                   ELSE (IF pdfMode = "hd" THEN 10 ELSE 30))
             /\ placements[k].page = placements[k - 1].page =>
                  placements[k].y = placements[k - 1].y + placements[k - 1].h
                                      + Px(placements[k].gap)
  /\ pc \in {"assembling", "returned"} =>
        totalHeight =
          SumOf([i \in DOMAIN results |-> ChunkH(results[i])], DOMAIN results)
            + SumOf([i \in DOMAIN results |->
                       IF i = 1 THEN 0
                       ELSE IF BothCards(i)
                            THEN Px(IF pdfMode = "hd" THEN 0 ELSE 20)
                            ELSE Px(IF pdfMode = "hd" THEN 10 ELSE 30)],
                    DOMAIN results)

\* a Standard document of two card rows on one page: the card gap lies
\* between them and is the only gap in the total height
C24_Witness ==
  /\ pc = "returned" /\ saved /\ pdfMode = "standard"
  /\ Len(placements) = 2
  /\ placements[2].item.isGroup /\ Len(placements[1].item.els) = 2
  /\ placements[2].gap = 20
  /\ placements[2].page = 1
  /\ totalHeight = placements[1].h + Px(20) + placements[2].h

(***************************************************************************)
(* Properties of the clone sanitizer for arbitrary titles and parents      *)
(* (SpecClone).                                                            *)
(***************************************************************************)
Members(i) == {chunks[i].els[k] : k \in DOMAIN chunks[i].els}

\* C25: in the clone of a card group captured through the grid, a grid child
\* is shown exactly when it is a member of the group and hidden otherwise,
\* whatever titles the cards carry.
C25_VisibleExactlyMembers ==
  \A i \in DOMAIN clones :
    (clones[i] # NoClone /\ CaptureTargetIsGrid(dom, inGrid, chunks[i])) =>
      \A e \in DOMAIN dom : inGrid[e] =>
         clones[i].display[e] = (IF e \in Members(i) THEN "flex" ELSE "none")

\* C26: every member of a group chunk is among the elements drawn by the
\* capture of that chunk, whatever the parent of the cards is.
C26_GroupMembersRendered ==
  \A i \in DOMAIN clones :
    (clones[i] # NoClone /\ chunks[i].isGroup) =>
      Members(i) \subseteq
        Rendered(dom, inGrid, nestedIn, chunks[i], clones[i].display)

(***************************************************************************)
(* The generating flag over a whole run (SpecLive).                        *)
(***************************************************************************)
\* C27: the generating flag is true from the trigger of an export until the
\* export has ended, false before and after, and once true it eventually
\* becomes false, in every outcome.
C27_FlagClearedAfterRun ==
  /\ [](pc \in {"loading", "capturing", "assembling", "caught", "returned",
                "rejected"} => generatingPdf)
  /\ [](pc \in {"idle", "done"} => ~generatingPdf)
  /\ (generatingPdf ~> ~generatingPdf)

\* an export that failed has ended and the flag is false again
C27_Witness ==
  /\ pc = "done"
  /\ ~generatingPdf
  /\ hasContainer
  /\ ~saved
  /\ alerts = <<"PDF generation failed. Check console for details.">>

(***************************************************************************)
(* The retry loop of the sequential variant (SpecSeq).                     *)
(***************************************************************************)
\* C28: in the sequential variant a chunk's capture is attempted at most 3
\* times; an attempt after the first is made only when all earlier attempts
\* threw and a pause has elapsed after each of them; no attempt follows a
\* success; and once the third attempt has thrown the export ends with the
\* failure alert and without a file.
C28_SequentialRetry ==
  /\ [][\A i \in DOMAIN attempts :
          attempts'[i] # attempts[i] =>
            /\ attempts'[i] = attempts[i] + 1
            /\ attempts'[i] <= 3
            /\ cap[i] = "pending"
            /\ attempts[i] > 0 =>
                 (throws[i] = attempts[i] /\ pauses'[i] = attempts[i])]_vars
  /\ [](\A i \in DOMAIN attempts :
          /\ attempts[i] <= 3
          /\ cap[i] = "ok" => throws[i] = attempts[i] - 1)
  /\ [](\A i \in DOMAIN throws :
          throws[i] = 3 =>
            /\ ~saved
            /\ pc \in {"caught", "returned", "done"}
            /\ pc \in {"returned", "done"} =>
                 alerts = <<"PDF generation failed. Check console for details.">>)

\* the first chunk was captured at its third attempt, the second chunk threw
\* three times, and the export ended with the failure alert and no file
C28_Witness ==
  /\ pc = "returned"
  /\ Len(chunks) >= 2
  /\ cap[1] = "ok" /\ attempts[1] = 3 /\ pauses[1] = 2
  /\ throws[2] = 3 /\ attempts[2] = 3 /\ pauses[2] = 2
  /\ ~saved
  /\ alerts = <<"PDF generation failed. Check console for details.">>

(***************************************************************************)
(* The guardrail specification: checkGuardrail calls against a cache that  *)
(* is empty, one entry short of MAX_CACHE_SIZE, or full.  Calls overlap:   *)
(* each is suspended at its await while others start and finish.           *)
(***************************************************************************)
RawTickers   == {<<"A">>, <<"\t", "a", "U+00A0">>, <<"m", "s">>}
AgentOutputs == {<<"S", "A", "F", "E">>, <<"S", "A", "F", "E", "\r", "\n">>,
                 <<"U", "N", "S", "A", "F", "E", "\n">>}
PrefillSizes == {0, MAX_CACHE_SIZE - 1, MAX_CACHE_SIZE}

\* the cache after n runs for n other tickers have completed
Prefilled(n) ==
  [i \in 1..n |->
     [key |-> <<"F", ToString(i)>>, status |-> TRUE, timestamp |-> 0]]

InitGuard ==
  /\ pdfMode = "standard"
  /\ hasContainer = FALSE
  /\ dom = <<>>
  /\ pc = "idle" /\ generatingPdf = FALSE /\ active = 0
  /\ chunks = <<>> /\ cap = <<>> /\ canvasH = <<>> /\ settled = <<>>
  /\ attempts = <<>> /\ clones = <<>>
  /\ InitRun
  /\ NoStyle
  /\ NoSeq
  /\ NoAgents
  /\ guardrailCache \in {Prefilled(n) : n \in PrefillSizes}
  /\ guardNow = 0
  /\ guardRuns = [r \in 1..MaxGuardCalls |-> IdleRun]

pipelineVars == <<pc, generatingPdf, callerError, active, thrown, captureVars,
                  assemblyVars, outputVars, inputVars, seqVars, colorVars,
                  liveDoc>>

\* lines 115-123: a call either returns the fresh cached verdict or starts
\* the guardrail agent and is suspended at the await
GuardCall(r, ticker) ==
  /\ guardRuns[r].st = "idle"
  /\ \A q \in 1..(r - 1) : guardRuns[q].st # "idle"
  /\ LET key == CacheKey(ticker) IN
       IF FreshHit(guardrailCache, key, guardNow)
       THEN guardRuns' =
              [guardRuns EXCEPT ![r] =
                 [st |-> "returned", ticker |-> ticker, outcome |-> "hit",
                  value |-> guardrailCache[CacheIndex(guardrailCache, key)].status]]
       ELSE guardRuns' =
              [guardRuns EXCEPT ![r] =
                 [st |-> "running", ticker |-> ticker, outcome |-> "none",
                  value |-> FALSE]]
  /\ UNCHANGED <<guardrailCache, guardNow, agentVars, pipelineVars>>

\* lines 124-131: the agent printed result; the verdict is stored and returned
GuardCompletes(r, result) ==
  /\ guardRuns[r].st = "running"
  /\ LET key    == CacheKey(guardRuns[r].ticker)
         status == SafeVerdict(result)
     IN /\ guardrailCache' =
             CacheAfterStore(guardrailCache, key, status, guardNow)
        /\ guardRuns' =
             [guardRuns EXCEPT ![r] =
                [@ EXCEPT !.st = "returned", !.outcome = "completed",
                          !.value = status]]
  /\ UNCHANGED <<guardNow, agentVars, pipelineVars>>

\* lines 132-134: runPythonAgent rejected; the call answers false
GuardFails(r) ==
  /\ guardRuns[r].st = "running"
  /\ guardRuns' =
       [guardRuns EXCEPT ![r] =
          [@ EXCEPT !.st = "returned", !.outcome = "failed", !.value = FALSE]]
  /\ UNCHANGED <<guardrailCache, guardNow, agentVars, pipelineVars>>

\* Date.now() moves on by half of CACHE_TTL
TimePasses(d) ==
  /\ guardNow + d <= MaxGuardHours * CACHE_TTL
  /\ guardNow' = guardNow + d
  /\ UNCHANGED <<guardrailCache, guardRuns, agentVars, pipelineVars>>

NextGuard ==
  \/ \E r \in 1..MaxGuardCalls, t \in RawTickers : GuardCall(r, t)
  \/ \E r \in 1..MaxGuardCalls, o \in AgentOutputs : GuardCompletes(r, o)
  \/ \E r \in 1..MaxGuardCalls : GuardFails(r)
  \/ \E d \in {CACHE_TTL \div 2} : TimePasses(d)

SpecGuard == InitGuard /\ [][NextGuard]_vars

\* C29: the guardrail cache never holds more than MAX_CACHE_SIZE entries;
\* the cache changes only in a step in which a running guardrail call
\* completes, and then by the store of that call's verdict under its key; a
\* call whose run fails returns false and leaves the cache as it was.
C29_GuardrailCache ==
  /\ [](Len(guardrailCache) <= MAX_CACHE_SIZE)
  /\ [][/\ guardrailCache' # guardrailCache =>
             \E r \in 1..MaxGuardCalls :
               /\ guardRuns[r].st = "running"
               /\ guardRuns'[r].outcome = "completed"
               /\ CacheIndex(guardrailCache',
                             CacheKey(guardRuns[r].ticker)) # 0
               /\ guardrailCache'[CacheIndex(guardrailCache',
                     CacheKey(guardRuns[r].ticker))].status
                    = guardRuns'[r].value
         /\ \A f \in 1..MaxGuardCalls :
              (guardRuns[f].st = "running" /\ guardRuns'[f].outcome = "failed")
                => /\ guardrailCache' = guardrailCache
                   /\ guardRuns'[f].value = FALSE]_vars

\* two calls for different keys overlapped on a full cache: one completed
\* and was stored after an eviction, the other failed
C29_Witness ==
  /\ Len(guardrailCache) = MAX_CACHE_SIZE
  /\ guardrailCache[1].key = <<"F", "2">>
  /\ \E r, q \in 1..MaxGuardCalls :
       /\ r < q
       /\ guardRuns[r].outcome = "completed"
       /\ guardRuns[q].outcome = "failed"
       /\ CacheKey(guardRuns[r].ticker) # CacheKey(guardRuns[q].ticker)
       /\ CacheIndex(guardrailCache, CacheKey(guardRuns[r].ticker))
            = MAX_CACHE_SIZE
       /\ CacheIndex(guardrailCache, CacheKey(guardRuns[q].ticker)) = 0

(***************************************************************************)
(* The agents specification: calls of the functions the hook returns, at   *)
(* any time and in any number up to MaxCalls.  A runAll fans out to the    *)
(* four runs; a run may also be called on its own.  The requests succeed   *)
(* or fail in any order.                                                   *)
(***************************************************************************)
Form(t, p, d, n) ==
  [ticker |-> t, purchaseDate |-> p, sellDate |-> d, shares |-> n]

\* one set of arguments for every set of runs that lines 22, 36, 50 and 65
\* let through: none, research and sentiment, these and tax, these and
\* dividend, all four
FormInputs ==
  {Form("", "2024-01-01", "2025-01-01", "10"),
   Form("AAPL", "", "", ""),
   Form("AAPL", "2024-01-01", "2025-01-01", ""),
   Form("AAPL", "", "2025-01-01", "10"),
   Form("AAPL", "2024-01-01", "2025-01-01", "10")}

AgentResults == {"report1", "report2"}

InitAgents ==
  /\ pdfMode = "standard"
  /\ hasContainer = FALSE
  /\ dom = <<>>
  /\ pc = "idle" /\ generatingPdf = FALSE /\ active = 0
  /\ chunks = <<>> /\ cap = <<>> /\ canvasH = <<>> /\ settled = <<>>
  /\ attempts = <<>> /\ clones = <<>>
  /\ InitRun
  /\ NoStyle
  /\ NoSeq
  /\ NoGuard
  /\ NoAgents

\* lines 78-97, with lines 21-23, 35-37, 49-52 and 64-66: runAll resets the
\* responses and calls the four runs one after the other; each run returns
\* at once on a missing input, otherwise raises its loading flag and is
\* suspended at its request.  The hook accepts a call at any time, also
\* while the runs of an earlier call are in flight.
RunAll(inp) ==
  /\ searches + Len(directRuns) < MaxCalls
  /\ searches' = searches + 1
  /\ formInput' = Append(formInput, inp)
  /\ responses' = [a \in Agents |-> "null"]
  /\ errors' = Append(errors, <<>>)
  /\ shownError' = Append(shownError, "none")
  /\ loading' = [a \in Agents |-> loading[a] \/ Startable(a, inp)]
  /\ agentRuns' = Append(agentRuns, RunsOf(inp))
  /\ runAllPc' = Append(runAllPc, "awaiting")
  /\ disturbed' = Append(Disturb(disturbed, runAllPc),
                         AnyPending(agentRuns, directRuns))
  /\ UNCHANGED <<directRuns, guardVars, pipelineVars>>

\* lines 25-26 and 30-31 (and their likes): the request of run a of call c
\* delivered res; it is stored and the flag is lowered
AgentSucceeds(c, a, res) ==
  /\ c \in DOMAIN agentRuns
  /\ agentRuns[c][a].st = "pending"
  /\ responses' = [responses EXCEPT ![a] = res]
  /\ loading' = [loading EXCEPT ![a] = FALSE]
  /\ agentRuns' = [agentRuns EXCEPT ![c][a] = [st |-> "ok", res |-> res]]
  /\ UNCHANGED <<errors, shownError, runAllPc, formInput, searches,
                 directRuns, disturbed, guardVars, pipelineVars>>

\* lines 27-31 (and their likes): the request of run a of call c failed; its
\* message is collected by the call and the flag is lowered
AgentFails(c, a) ==
  /\ c \in DOMAIN agentRuns
  /\ agentRuns[c][a].st = "pending"
  /\ errors' = [errors EXCEPT ![c] = Append(@, FailureMessage(a))]
  /\ loading' = [loading EXCEPT ![a] = FALSE]
  /\ agentRuns' = [agentRuns EXCEPT ![c][a] = [st |-> "failed", res |-> "null"]]
  /\ UNCHANGED <<responses, shownError, runAllPc, formInput, searches,
                 directRuns, disturbed, guardVars, pipelineVars>>

\* lines 92-107: every run of call c has settled; the call reports and
\* resolves
RunAllResolves(c) ==
  /\ c \in DOMAIN runAllPc
  /\ runAllPc[c] = "awaiting"
  /\ AllSettled(agentRuns[c])
  /\ shownError' = [shownError EXCEPT ![c] = ReportOf(errors[c])]
  /\ runAllPc' = [runAllPc EXCEPT ![c] = "resolved"]
  /\ UNCHANGED <<loading, responses, agentRuns, errors, formInput, searches,
                 directRuns, disturbed, guardVars, pipelineVars>>

\* lines 21-23, 35-37, 49-52, 64-66 and 109-117: a run the hook returns is
\* called on its own; it returns at once on a missing input, otherwise it
\* raises its flag and is suspended at its request
RunDirect(a, inp) ==
  /\ searches + Len(directRuns) < MaxCalls
  /\ IF Startable(a, inp)
     THEN /\ loading' = [loading EXCEPT ![a] = TRUE]
          /\ directRuns' = Append(directRuns,
                 [agent |-> a, st |-> "pending", res |-> "null", msg |-> "none"])
          /\ disturbed' = Disturb(disturbed, runAllPc)
     ELSE /\ directRuns' = Append(directRuns,
                 [agent |-> a, st |-> "skipped", res |-> "null", msg |-> "none"])
          /\ UNCHANGED <<loading, disturbed>>
  /\ UNCHANGED <<responses, agentRuns, errors, shownError, runAllPc,
                 formInput, searches, guardVars, pipelineVars>>

\* lines 25-26 and 30-31 (and their likes) for a run called on its own
DirectSucceeds(k, res) ==
  /\ k \in DOMAIN directRuns
  /\ directRuns[k].st = "pending"
  /\ responses' = [responses EXCEPT ![directRuns[k].agent] = res]
  /\ loading' = [loading EXCEPT ![directRuns[k].agent] = FALSE]
  /\ directRuns' = [directRuns EXCEPT ![k].st = "ok", ![k].res = res]
  /\ UNCHANGED <<agentRuns, errors, shownError, runAllPc, formInput,
                 searches, disturbed, guardVars, pipelineVars>>

\* lines 27-31 (and their likes) for a run called on its own: the message
\* goes to the caller's onError
DirectFails(k) ==
  /\ k \in DOMAIN directRuns
  /\ directRuns[k].st = "pending"
  /\ loading' = [loading EXCEPT ![directRuns[k].agent] = FALSE]
  /\ directRuns' = [directRuns EXCEPT
                      ![k].st = "failed",
                      ![k].msg = FailureMessage(directRuns[k].agent)]
  /\ UNCHANGED <<responses, agentRuns, errors, shownError, runAllPc,
                 formInput, searches, disturbed, guardVars, pipelineVars>>

NextAgents ==
  \/ \E inp \in FormInputs : RunAll(inp)
  \/ \E c \in 1..MaxCalls, a \in Agents, res \in AgentResults :
        AgentSucceeds(c, a, res)
  \/ \E c \in 1..MaxCalls, a \in Agents : AgentFails(c, a)
  \/ \E c \in 1..MaxCalls : RunAllResolves(c)
  \/ \E a \in Agents, inp \in FormInputs : RunDirect(a, inp)
  \/ \E k \in 1..MaxCalls, res \in AgentResults : DirectSucceeds(k, res)
  \/ \E k \in 1..MaxCalls : DirectFails(k)

SpecAgents == InitAgents /\ [][NextAgents]_vars

\* the step is the runAll call number c
Called(c) == searches' = searches + 1 /\ c = searches'

\* the step resolves runAll call c
Resolves(c) ==
  /\ c \in DOMAIN runAllPc
  /\ runAllPc[c] = "awaiting" /\ runAllPc'[c] = "resolved"

CompleteForm(inp) == \A f \in DOMAIN inp : inp[f] # ""

\* C30 (as stated): a runAll call starts the four requests in one step and
\* resolves only when none is pending; when it resolves, every loading flag
\* is false and every agent whose request succeeded has the delivered
\* response stored.
C30_RunAllSettles ==
  /\ [][\A c \in 1..MaxCalls : Called(c) =>
          \A a \in Agents : agentRuns'[c][a].st = "pending" /\ loading'[a]]_vars
  /\ [][\A c \in 1..MaxCalls : Resolves(c) =>
          \A a \in Agents :
            /\ agentRuns[c][a].st # "pending"
            /\ ~loading'[a]
            /\ agentRuns[c][a].st = "ok" =>
                 responses'[a] = agentRuns[c][a].res]_vars

\* C30 (amended): a runAll call starts, in one step, the request of every
\* agent whose inputs are present and of no other (all four when the
\* arguments are complete); it resolves only when none of them is pending;
\* and when a call resolves that was not disturbed (no request was in flight
\* at the call, and no other runAll and no run on its own was called before
\* the call resolved), every loading flag is false and every agent whose
\* request succeeded has the delivered response stored, whatever the other
\* agents did and in whatever order.
C30_RunAllSettlesWhenAlone ==
  /\ [][\A c \in 1..MaxCalls : Called(c) =>
          /\ \A a \in Agents :
               /\ (agentRuns'[c][a].st = "pending") <=> Startable(a, formInput'[c])
               /\ Startable(a, formInput'[c]) => loading'[a]
          /\ CompleteForm(formInput'[c]) =>
               \A a \in Agents : agentRuns'[c][a].st = "pending"]_vars
  /\ [][\A c \in 1..MaxCalls : Resolves(c) =>
          \A a \in Agents : agentRuns[c][a].st # "pending"]_vars
  /\ [][\A c \in 1..MaxCalls : (Resolves(c) /\ ~disturbed[c]) =>
          \A a \in Agents :
            /\ ~loading'[a]
            /\ agentRuns[c][a].st = "ok" =>
                 /\ agentRuns[c][a].res \in AgentResults
                 /\ responses'[a] = agentRuns[c][a].res]_vars

\* after a run called on its own had delivered, a runAll over complete
\* arguments has resolved undisturbed: its dividend request failed first,
\* its research request failed next, and its tax and sentiment requests
\* succeeded with different responses
C30_Witness ==
  /\ searches = 1
  /\ runAllPc[1] = "resolved" /\ ~disturbed[1]
  /\ Len(directRuns) = 1 /\ directRuns[1].st = "ok"
  /\ CompleteForm(formInput[1])
  /\ errors[1] = <<FailureMessage("dividend"), FailureMessage("research")>>
  /\ shownError[1] = FailureMessage("dividend")
  /\ agentRuns[1]["tax"].st = "ok" /\ responses["tax"] = "report1"
  /\ agentRuns[1]["sentiment"].st = "ok" /\ responses["sentiment"] = "report2"
  /\ responses["research"] = "null" /\ responses["dividend"] = "null"
  /\ \A a \in Agents : ~loading[a]

====
